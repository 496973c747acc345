--------------------------- MODULE MetadataProofs ---------------------------
(***************************************************************************)
(* Shares, for any number of codes, items, files and requests:             *)
(* WithdrawnGrantsNothing and SharesAccounted.                             *)
(*                                                                         *)
(* A request passes a check and acts later; the check says something about *)
(* the share's row as it was.  Both properties rest on what such a row may *)
(* still do: a cancelled share stays cancelled, the saver's row is locked  *)
(* from the test of the quota to the charge, and a deletion that has       *)
(* looked for links has found every one that is not marked as late.        *)
(*                                                                         *)
(* Then copies, for any files, folders, requests and batch size:           *)
(* CopiesAccounted.  Of the bytes a request reserved every one is used,    *)
(* given back, in hand or still planned, and no file is planned twice.     *)
(*                                                                         *)
(* Then reads, for any number of list requests and any listing:            *)
(* ReadsFaithful.  Pages stored under one generation of the list cache     *)
(* have all that was announced when that generation began, and the sort    *)
(* key leaves one order of the rows.                                       *)
(*                                                                         *)
(* Then folders, for any tree, names, requests and batch size:             *)
(* TreeConsistent.  A deletion that has locked all it read has the whole   *)
(* subtree, since no other request writes below a row it holds; the counts *)
(* move with the children; a snapshot is a tree that counts by itself.     *)
(***************************************************************************)
EXTENDS Shares, FileCopy, FileReads, FolderTree, SetSumsProofs, FiniteSetTheorems, TLAPS

-----------------------------------------------------------------------------
(* The inductive invariant.                                                *)

ShareRow == [st : {"none", "active", "cancelled"}, exp : Nat, perm : Permissions,
             items : SUBSET Items, late : SUBSET Items]
DriveRow == [used : Nat, names : SUBSET SharedFiles, folder : BOOLEAN, count : Nat, locked : BOOLEAN]
VisitorSteps == {"idle", "insert", "update", "cancel", "token", "browse", "download", "save", "listing",
                 "stream", "plan", "quota", "copy", "unlink"}
VisitorRow == [pc : VisitorSteps, code : Codes \cup {NoCode}, perm : Permissions, items : SUBSET Items,
               plan : SUBSET (SharedFiles \cup Codes), linked : SUBSET Codes, barred : SUBSET Codes]
TokenRow == [code : Codes, scope : Permissions, exp : Nat]

ShareRows ==
    /\ day \in 0..MaxDay
    /\ share \in [Codes -> ShareRow]
    /\ kept \subseteq Items /\ purged \subseteq Items \ kept
    /\ refs \in [SharedFiles -> Nat]
    /\ drive \in DriveRow
    /\ token \subseteq TokenRow

\* What a request has read: a code, files of the share, and the withdrawals
\* that had been answered by then; what it was granted was not among them.
Granted == {"token", "listing", "stream", "plan", "quota", "copy"}
VisitorKnown(r) ==
    /\ r \in VisitorRow
    /\ r.pc \notin {"idle", "insert", "unlink"} => r.code \in Codes
    /\ r.pc \in {"quota", "copy"} => r.plan \subseteq SharedFiles
    /\ r.barred \subseteq withdrawn
    /\ r.pc \in Granted => r.code \notin r.barred
VisitorsKnown == vreq \in [Visitors -> VisitorRow] /\ \A v \in Visitors : VisitorKnown(vreq[v])

\* A cancellation is for good.
WithdrawnCancelled == \A c \in withdrawn : c \in Codes /\ share[c].st = "cancelled"

\* The row of the saver is locked from the test of the quota to the charge.
SaverLocked ==
    /\ drive.used <= SaverQuota
    /\ \A v \in Visitors :
          vreq[v].pc = "copy" => drive.locked /\ SaveFits(Cardinality(vreq[v].plan))
    /\ \A v, w \in Visitors : vreq[v].pc = "copy" /\ vreq[w].pc = "copy" => v = w

\* A deletion that runs has found every link that Create did not add since.
UnlinkFinds ==
    \A v \in Visitors, c \in Codes :
        vreq[v].pc = "unlink" /\ c \notin vreq[v].linked =>
            share[c].items \cap vreq[v].items \subseteq share[c].late

ShareInv ==
    /\ ShareRows /\ VisitorsKnown /\ WithdrawnCancelled /\ SaverLocked
    /\ SavedCopiesReferenced /\ SaverChargedForCopies /\ UnlinkFinds /\ LinksCleaned

-----------------------------------------------------------------------------
(* Facts about files and requests.                                         *)

\* A shared file has one owner.
LEMMA OneOwner ==
    ASSUME NEW f \in SharedFiles
    PROVE  \E i \in Items : f \in FilesOf[i] /\ \A j \in Items : f \in FilesOf[j] => j = i
<1>1. PICK i \in Items : f \in FilesOf[i]
    BY DEF SharedFiles
<1>2. ASSUME NEW j \in Items, f \in FilesOf[j] PROVE j = i
    BY <1>1, <1>2, ShareAssumption
<1> QED
    BY <1>1, <1>2

\* So its content is referenced by one row of the owner, until that is purged.
LEMMA OwnersCounted ==
    ASSUME NEW f \in SharedFiles, NEW i \in Items, f \in FilesOf[i], NEW P
    PROVE  Cardinality({j \in Items \ P : f \in FilesOf[j]}) = IF i \in P THEN 0 ELSE 1
<1>1. \A j \in Items : f \in FilesOf[j] => j = i
    BY OneOwner
<1>2. CASE i \in P
  <2>1. {j \in Items \ P : f \in FilesOf[j]} = {}
      BY <1>1, <1>2
  <2> QED
      BY <1>2, <2>1, FS_EmptySet
<1>3. CASE i \notin P
  <2>1. {j \in Items \ P : f \in FilesOf[j]} = {i}
      BY <1>1, <1>3
  <2> QED
      BY <1>3, <2>1, FS_Singleton
<1> QED
    BY <1>2, <1>3

\* Sets of shared files are finite.
LEMMA FilesFinite ==
    ASSUME NEW T \in SUBSET SharedFiles
    PROVE  IsFiniteSet(T) /\ Cardinality(T) \in Nat
<1>1. IsFiniteSet(SharedFiles)
    BY ShareAssumption DEF SharedFiles
<1> QED
    BY <1>1, FS_Subset, FS_CardinalityType

\* A request that has ended knows nothing.
LEMMA IdleKnown == VisitorKnown(IdleVisitor) /\ IdleVisitor \in VisitorRow /\ IdleVisitor.pc = "idle"
BY DEF VisitorKnown, IdleVisitor, VisitorRow, VisitorSteps, Granted, Permissions

\* A request that begins has read nothing.
LEMMA StartsRow ==
    ASSUME NEW pc \in VisitorSteps
    PROVE  /\ Starts(pc) \in VisitorRow /\ Starts(pc).pc = pc /\ Starts(pc).barred = {}
           /\ Starts(pc).plan = {} /\ Starts(pc).code = NoCode
<1>1. IdleVisitor \in VisitorRow /\ IdleVisitor.barred = {} /\ IdleVisitor.plan = {} /\ IdleVisitor.code = NoCode
    BY IdleKnown DEF IdleVisitor
<1> QED
    BY <1>1 DEF Starts, VisitorRow

\* One request goes on with what it has read.
LEMMA VisitorMoves ==
    ASSUME VisitorsKnown, NEW v \in Visitors, NEW r, VisitorKnown(r), Continues(v, r),
           withdrawn \subseteq withdrawn'
    PROVE  /\ VisitorsKnown'
           /\ vreq'[v] = r
           /\ \A w \in Visitors : w # v => vreq'[w] = vreq[w]
<1>1. vreq' = [vreq EXCEPT ![v] = r] /\ r \in VisitorRow
    BY DEF Continues, VisitorKnown
<1>2. vreq' \in [Visitors -> VisitorRow] /\ vreq'[v] = r /\ \A w \in Visitors : w # v => vreq'[w] = vreq[w]
    BY <1>1 DEF VisitorsKnown
<1>3. \A w \in Visitors : VisitorKnown(vreq'[w])
    BY <1>2 DEF VisitorsKnown
<1>4. VisitorsKnown'
    BY <1>2, <1>3 DEF VisitorsKnown, VisitorKnown
<1> QED
    BY <1>2, <1>4

\* Requests only end.
OnlyEnd ==
    /\ vreq' \in [Visitors -> VisitorRow]
    /\ \A w \in Visitors : vreq'[w] = vreq[w] \/ vreq'[w] = IdleVisitor

\* What is known of the others stays known.
LEMMA EndKnown ==
    ASSUME VisitorsKnown, OnlyEnd, withdrawn \subseteq withdrawn'
    PROVE  VisitorsKnown'
<1>1. \A w \in Visitors : VisitorKnown(vreq'[w])
    BY IdleKnown DEF VisitorsKnown, OnlyEnd
<1> QED
    BY <1>1 DEF VisitorsKnown, VisitorKnown, OnlyEnd

\* A request that ends, or none.
LEMMA EndsOnly ==
    ASSUME VisitorsKnown, UNCHANGED vreq \/ \E v \in Visitors : Finished(v)
    PROVE  OnlyEnd
<1>1. CASE UNCHANGED vreq
    BY <1>1 DEF OnlyEnd, VisitorsKnown
<1>2. ASSUME NEW v \in Visitors, Finished(v) PROVE OnlyEnd
    BY <1>2, IdleKnown DEF OnlyEnd, VisitorsKnown, Finished
<1> QED
    BY <1>1, <1>2

-----------------------------------------------------------------------------
(* What each part of the invariant survives.                               *)

\* The saver's row: requests end, or go on to anything but "copy".
LEMMA LockKept ==
    ASSUME SaverLocked, UNCHANGED drive,
           \A w \in Visitors : vreq'[w] = vreq[w] \/ vreq'[w].pc # "copy"
    PROVE  SaverLocked'
<1>1. \A w \in Visitors : vreq'[w].pc = "copy" => vreq'[w] = vreq[w] /\ vreq[w].pc = "copy"
    OBVIOUS
<1> QED
    BY <1>1 DEF SaverLocked, SaveFits

\* The links: shares keep their items, requests do not begin to delete.
LEMMA LinksKept ==
    ASSUME UnlinkFinds, LinksCleaned, kept' = kept,
           \A c \in Codes : share'[c].items = share[c].items /\ share'[c].late = share[c].late,
           \A w \in Visitors : vreq'[w] = vreq[w] \/ vreq'[w].pc # "unlink"
    PROVE  UnlinkFinds' /\ LinksCleaned'
<1>1. \A w \in Visitors : vreq'[w].pc = "unlink" => vreq'[w] = vreq[w] /\ vreq[w].pc = "unlink"
    OBVIOUS
<1>2. UnlinkFinds'
    BY <1>1 DEF UnlinkFinds
<1> QED
    BY <1>2 DEF LinksCleaned

\* References and charges.
LEMMA AccountKept ==
    ASSUME SavedCopiesReferenced, SaverChargedForCopies, UNCHANGED <<refs, purged, drive>>
    PROVE  SavedCopiesReferenced' /\ SaverChargedForCopies'
BY DEF SavedCopiesReferenced, SaverChargedForCopies

\* A step that only moves one request on, or issues a token.
LEMMA QuietKeeps ==
    ASSUME ShareInv, NEW v \in Visitors, NEW r, VisitorKnown(r), Continues(v, r),
           r.pc \notin {"copy", "unlink"},
           UNCHANGED <<day, share, kept, purged, refs, drive, withdrawn>>, token' \subseteq TokenRow
    PROVE  ShareInv'
<1> USE DEF ShareInv
<1>1. /\ VisitorsKnown'
      /\ vreq'[v] = r
      /\ \A w \in Visitors : w # v => vreq'[w] = vreq[w]
    BY VisitorMoves
<1>2. SaverLocked'
    BY <1>1, LockKept
<1>3. UnlinkFinds' /\ LinksCleaned'
    BY <1>1, LinksKept
<1>4. ShareRows' /\ WithdrawnCancelled'
    BY DEF ShareRows, WithdrawnCancelled
<1> QED
    BY <1>1, <1>2, <1>3, <1>4, AccountKept

-----------------------------------------------------------------------------
(* Steps that read.                                                        *)

\* Any request that ends without effect.
LEMMA EndKeeps ==
    ASSUME ShareInv, NEW v \in Visitors, Finished(v),
           UNCHANGED <<day, share, kept, purged, refs, drive, withdrawn>>, token' \subseteq TokenRow
    PROVE  ShareInv'
<1>1. Continues(v, IdleVisitor)
    BY DEF Finished, Continues
<1> QED
    BY <1>1, IdleKnown, QuietKeeps

\* An active share is not among the withdrawn ones, nor among those a request
\* knew when it began.
LEMMA ActiveNotBarred ==
    ASSUME ShareInv, NEW v \in Visitors, NEW c \in Codes, IsShareActive(share[c])
    PROVE  c \notin withdrawn /\ c \notin vreq[v].barred
<1>1. c \notin withdrawn
    BY DEF ShareInv, WithdrawnCancelled, IsShareActive
<1>2. vreq[v].barred \subseteq withdrawn
    BY DEF ShareInv, VisitorsKnown, VisitorKnown
<1> QED
    BY <1>1, <1>2

\* Create has items; Update and Cancel have a code.
LEMMA OwnerReads ==
    ASSUME ShareInv, NEW v \in Visitors,
           \/ \E is \in SUBSET Items : CreateValidate(v, is)
           \/ \E c \in Codes : UpdateRead(v, c) \/ CancelRead(v, c)
    PROVE  ShareInv'
<1>1. CASE Finished(v) /\ UNCHANGED <<day, share, kept, purged, refs, drive, token, withdrawn>>
    BY <1>1, EndKeeps DEF ShareInv, ShareRows
<1>2. ASSUME NEW is \in SUBSET Items, CreateValidate(v, is) PROVE ShareInv'
  <2> DEFINE r == [Starts("insert") EXCEPT !.items = is]
  <2>1. r \in VisitorRow /\ r.pc = "insert" /\ r.barred = {}
    <3>1. "insert" \in VisitorSteps
        BY DEF VisitorSteps
    <3> QED
        BY <3>1, StartsRow DEF VisitorRow
  <2>2. VisitorKnown(r) /\ r.pc = "insert"
      BY <2>1 DEF VisitorKnown, Granted
  <2> HIDE DEF r
  <2>3. Finished(v) \/ Continues(v, r)
      BY <1>2 DEF CreateValidate, r
  <2>4. UNCHANGED <<day, share, kept, purged, refs, drive, token, withdrawn>>
      BY <1>2 DEF CreateValidate
  <2> QED
      BY <1>1, <2>2, <2>3, <2>4, QuietKeeps DEF ShareInv, ShareRows
<1>3. ASSUME NEW c \in Codes, UpdateRead(v, c) \/ CancelRead(v, c) PROVE ShareInv'
  <2> DEFINE r(pc) == [Starts(pc) EXCEPT !.code = c]
  <2>1. ASSUME NEW pc \in {"update", "cancel"} PROVE VisitorKnown(r(pc)) /\ r(pc).pc = pc
    <3>1. pc \in VisitorSteps
        BY DEF VisitorSteps
    <3>2. r(pc) \in VisitorRow /\ r(pc).pc = pc /\ r(pc).barred = {} /\ r(pc).code = c
        BY <3>1, StartsRow DEF VisitorRow
    <3> QED
        BY <3>2 DEF VisitorKnown, Granted
  <2> HIDE DEF r
  <2>2. Finished(v) \/ Continues(v, r("update")) \/ Continues(v, r("cancel"))
      BY <1>3 DEF UpdateRead, CancelRead, r
  <2>3. UNCHANGED <<day, share, kept, purged, refs, drive, token, withdrawn>>
      BY <1>3 DEF UpdateRead, CancelRead
  <2> QED
      BY <1>1, <2>1, <2>2, <2>3, QuietKeeps DEF ShareInv, ShareRows
<1> QED
    BY <1>2, <1>3

\* A visitor who is let in finds the share active, so it is not one of the
\* withdrawals answered by then.
LEMMA VisitorEnters ==
    ASSUME ShareInv, NEW v \in Visitors,
           \/ \E c \in Codes, right \in BOOLEAN : AccessCheck(v, c, right)
           \/ \E t \in token, op \in {"browse", "download", "save"} : ShareAuthFilter(v, t, op)
    PROVE  ShareInv'
<1>0. withdrawn \subseteq Codes /\ token \subseteq TokenRow /\ share \in [Codes -> ShareRow]
    BY DEF ShareInv, WithdrawnCancelled, ShareRows
<1>1. CASE Finished(v) /\ UNCHANGED <<day, share, kept, purged, refs, drive, token, withdrawn>>
    BY <1>0, <1>1, EndKeeps
<1>2. ASSUME NEW c \in Codes, NEW right \in BOOLEAN, AccessCheck(v, c, right) PROVE ShareInv'
  <2> DEFINE p == share[c].perm
             r == [Starts("token") EXCEPT !.code = c, !.perm = p, !.barred = withdrawn]
  <2>1. p \in Permissions
      BY <1>0 DEF ShareRow
  <2>2. r \in VisitorRow /\ r.pc = "token" /\ r.barred = withdrawn /\ r.code = c
    <3> DEFINE q == Starts("token")
    <3>1. "token" \in VisitorSteps
        BY DEF VisitorSteps
    <3>2. q \in VisitorRow /\ q.pc = "token"
        BY <3>1, StartsRow
    <3>3. withdrawn \in SUBSET Codes /\ c \in Codes \cup {NoCode} /\ p \in Permissions
        BY <1>0, <2>1
    <3>4. r = [q EXCEPT !.code = c, !.perm = p, !.barred = withdrawn]
        OBVIOUS
    <3> HIDE DEF q, r, p
    <3> QED
        BY <3>2, <3>3, <3>4 DEF VisitorRow
  <2>3. Finished(v) \/ (IsShareActive(share[c]) /\ Continues(v, r))
      BY <1>2 DEF AccessCheck
  <2>4. UNCHANGED <<day, share, kept, purged, refs, drive, token, withdrawn>>
      BY <1>2 DEF AccessCheck
  <2> HIDE DEF p, r
  <2>5. IsShareActive(share[c]) => VisitorKnown(r) /\ r.pc = "token"
      BY <2>2, ActiveNotBarred DEF VisitorKnown
  <2> QED
      BY <1>0, <1>1, <2>3, <2>4, <2>5, QuietKeeps
<1>3. ASSUME NEW t \in token, NEW op \in {"browse", "download", "save"}, ShareAuthFilter(v, t, op)
      PROVE  ShareInv'
  <2> DEFINE c == t.code
             r == [Starts(op) EXCEPT !.code = c, !.barred = withdrawn]
  <2>1. c \in Codes
      BY <1>0 DEF TokenRow
  <2>2. r \in VisitorRow /\ r.pc = op /\ r.barred = withdrawn /\ r.code = c
    <3> DEFINE q == Starts(op)
    <3>1. op \in VisitorSteps
        BY DEF VisitorSteps
    <3>2. q \in VisitorRow /\ q.pc = op
        BY <3>1, StartsRow
    <3>3. withdrawn \in SUBSET Codes /\ c \in Codes \cup {NoCode}
        BY <1>0, <2>1
    <3>4. r = [q EXCEPT !.code = c, !.barred = withdrawn]
        OBVIOUS
    <3> HIDE DEF q, r, c
    <3> QED
        BY <3>2, <3>3, <3>4 DEF VisitorRow
  <2>3. Finished(v) \/ Continues(v, r)
      BY <1>3 DEF ShareAuthFilter
  <2>4. UNCHANGED <<day, share, kept, purged, refs, drive, token, withdrawn>>
      BY <1>3 DEF ShareAuthFilter
  <2> HIDE DEF c, r
  <2>5. VisitorKnown(r) /\ r.pc = op
      BY <2>1, <2>2 DEF VisitorKnown, Granted
  <2> QED
      BY <1>0, <1>1, <2>3, <2>4, <2>5, QuietKeeps
<1> QED
    BY <1>2, <1>3

\* A request that goes on with a plan of files of the share.
LEMMA PlanKnown ==
    ASSUME ShareInv, NEW v \in Visitors, NEW pc \in VisitorSteps, NEW fs \in SUBSET SharedFiles,
           vreq[v].code \in Codes,
           pc \in Granted => vreq[v].code \notin vreq[v].barred
    PROVE  LET r == [vreq[v] EXCEPT !.pc = pc, !.plan = fs] IN VisitorKnown(r) /\ r.pc = pc
<1> DEFINE r == [vreq[v] EXCEPT !.pc = pc, !.plan = fs]
<1>1. vreq[v] \in VisitorRow /\ vreq[v].barred \subseteq withdrawn
    BY DEF ShareInv, VisitorsKnown, VisitorKnown
<1>2. /\ r \in VisitorRow /\ r.pc = pc /\ r.code = vreq[v].code /\ r.barred = vreq[v].barred
      /\ r.plan = fs
    BY <1>1 DEF VisitorRow
<1> HIDE DEF r
<1>3. VisitorKnown(r)
    BY <1>1, <1>2 DEF VisitorKnown
<1> QED
    BY <1>2, <1>3 DEF r

\* A request that goes on with the same share and perhaps a plan of files.
LEMMA GoesOnKnown ==
    ASSUME ShareInv, NEW v \in Visitors, NEW pc \in VisitorSteps, NEW fs \in SUBSET SharedFiles, NEW r,
           \/ r = [vreq[v] EXCEPT !.pc = pc] /\ pc \notin {"quota", "copy"}
           \/ r = [vreq[v] EXCEPT !.pc = pc] /\ vreq[v].plan \subseteq SharedFiles
           \/ r = [vreq[v] EXCEPT !.pc = pc, !.plan = fs],
           vreq[v].code \in Codes,
           pc \in Granted => vreq[v].code \notin vreq[v].barred
    PROVE  VisitorKnown(r) /\ r.pc = pc
<1>1. vreq[v] \in VisitorRow /\ vreq[v].barred \subseteq withdrawn
    BY DEF ShareInv, VisitorsKnown, VisitorKnown
<1>2. CASE r = [vreq[v] EXCEPT !.pc = pc]
  <2>1. /\ r \in VisitorRow /\ r.pc = pc /\ r.code = vreq[v].code /\ r.barred = vreq[v].barred
        /\ r.plan = vreq[v].plan
      BY <1>1, <1>2 DEF VisitorRow
  <2>2. CASE pc \notin {"quota", "copy"}
      BY <1>1, <2>1, <2>2 DEF VisitorKnown
  <2>3. CASE vreq[v].plan \subseteq SharedFiles
      BY <1>1, <2>1, <2>3 DEF VisitorKnown
  <2>4. CASE r = [vreq[v] EXCEPT !.pc = pc, !.plan = fs]
    <3>1. r.plan = fs
        BY <1>1, <2>4 DEF VisitorRow
    <3> QED
        BY <1>1, <2>1, <3>1 DEF VisitorKnown
  <2> QED
      BY <2>2, <2>3, <2>4
<1>3. CASE r = [vreq[v] EXCEPT !.pc = pc, !.plan = fs]
  <2>1. VisitorKnown([vreq[v] EXCEPT !.pc = pc, !.plan = fs]) /\ [vreq[v] EXCEPT !.pc = pc, !.plan = fs].pc = pc
      BY PlanKnown
  <2> QED
      BY <1>3, <2>1
<1> QED
    BY <1>2, <1>3

\* Browsing, downloading and preparing a save: each goes on only with a share
\* that is active now.
LEMMA VisitorReads ==
    ASSUME ShareInv, NEW v \in Visitors,
           \/ BrowseActive(v) \/ BrowseList(v) \/ CompleteDownload(v) \/ SaveCheck(v)
           \/ \E f \in SharedFiles : GetDownloadInfo(v, f)
           \/ \E fs \in SUBSET SharedFiles : SavePlan(v, fs)
    PROVE  ShareInv'
<1> DEFINE c == vreq[v].code
           Quiet == UNCHANGED <<day, share, kept, purged, refs, drive, token, withdrawn>>
<1>0. token \subseteq TokenRow /\ VisitorKnown(vreq[v])
    BY DEF ShareInv, VisitorsKnown, ShareRows
<1>1. CASE Finished(v) /\ Quiet
    BY <1>0, <1>1, EndKeeps
<1>2. ASSUME NEW pc \in VisitorSteps, pc \notin {"copy", "unlink"}, NEW fs \in SUBSET SharedFiles, NEW r,
             \/ r = [vreq[v] EXCEPT !.pc = pc] /\ pc # "quota"
             \/ r = [vreq[v] EXCEPT !.pc = pc, !.plan = fs],
             c \in Codes, pc \in Granted => c \notin vreq[v].barred,
             Continues(v, r), Quiet
      PROVE  ShareInv'
  <2>1. vreq[v].code \in Codes /\ (pc \in Granted => vreq[v].code \notin vreq[v].barred)
      BY <1>2
  <2>2. VisitorKnown(r) /\ r.pc = pc
    <3>1. CASE r = [vreq[v] EXCEPT !.pc = pc] /\ pc \notin {"quota", "copy"}
        BY <2>1, <3>1, GoesOnKnown
    <3>2. CASE r = [vreq[v] EXCEPT !.pc = pc, !.plan = fs]
      <4>1. VisitorKnown([vreq[v] EXCEPT !.pc = pc, !.plan = fs]) /\ [vreq[v] EXCEPT !.pc = pc, !.plan = fs].pc = pc
          BY <2>1, PlanKnown
      <4> QED
          BY <3>2, <4>1
    <3> QED
        BY <1>2, <3>1, <3>2
  <2> QED
      BY <1>0, <1>2, <2>2, QuietKeeps
<1>3. c \in Codes /\ IsShareActive(share[c]) => c \notin vreq[v].barred
    BY ActiveNotBarred
<1>4. {"listing", "stream", "plan", "quota"} \subseteq VisitorSteps
    BY DEF VisitorSteps
<1>5. CASE BrowseList(v) \/ CompleteDownload(v)
    BY <1>1, <1>5 DEF BrowseList, CompleteDownload
<1>6. CASE BrowseActive(v)
  <2>1. c \in Codes /\ Quiet
      BY <1>0, <1>6 DEF BrowseActive, VisitorKnown
  <2>2. Finished(v) \/ (IsShareActive(share[c]) /\ Continues(v, [vreq[v] EXCEPT !.pc = "listing"]))
      BY <1>6 DEF BrowseActive
  <2> HIDE DEF c, Quiet
  <2> QED
      BY <1>1, <1>2, <1>3, <1>4, <2>1, <2>2
<1>7. CASE SaveCheck(v)
  <2>1. c \in Codes /\ Quiet
      BY <1>0, <1>7 DEF SaveCheck, VisitorKnown
  <2>2. Finished(v) \/ (IsShareActive(share[c]) /\ Continues(v, [vreq[v] EXCEPT !.pc = "plan"]))
      BY <1>7 DEF SaveCheck
  <2> HIDE DEF c, Quiet
  <2> QED
      BY <1>1, <1>2, <1>3, <1>4, <2>1, <2>2
<1>8. ASSUME NEW f \in SharedFiles, GetDownloadInfo(v, f) PROVE ShareInv'
  <2>1. c \in Codes /\ Quiet
      BY <1>0, <1>8 DEF GetDownloadInfo, VisitorKnown
  <2>2. Finished(v) \/ (IsShareActive(share[c]) /\ Continues(v, [vreq[v] EXCEPT !.pc = "stream", !.plan = {f}]))
      BY <1>8 DEF GetDownloadInfo, DownloadAllowed
  <2>3. {f} \in SUBSET SharedFiles
      OBVIOUS
  <2> HIDE DEF c, Quiet
  <2> QED
      BY <1>1, <1>2, <1>3, <1>4, <2>1, <2>2, <2>3
<1>9. ASSUME NEW fs \in SUBSET SharedFiles, SavePlan(v, fs) PROVE ShareInv'
  <2>1. c \in Codes /\ Quiet /\ c \notin vreq[v].barred
      BY <1>0, <1>9 DEF SavePlan, VisitorKnown, Granted
  <2>2. Finished(v) \/ Continues(v, [vreq[v] EXCEPT !.pc = "quota", !.plan = fs])
      BY <1>9 DEF SavePlan
  <2> HIDE DEF c, Quiet
  <2> QED
      BY <1>1, <1>2, <1>4, <2>1, <2>2
<1> QED
    BY <1>5, <1>6, <1>7, <1>8, <1>9

\* The token names the code and the permission that were read.
LEMMA GrantKeeps ==
    ASSUME ShareInv, NEW v \in Visitors, AccessGrant(v)
    PROVE  ShareInv'
<1> DEFINE t == [code |-> vreq[v].code, scope |-> vreq[v].perm, exp |-> day + 1]
<1>1. vreq[v].code \in Codes /\ vreq[v].perm \in Permissions /\ day \in Nat
    BY ShareAssumption DEF ShareInv, VisitorsKnown, VisitorKnown, VisitorRow, AccessGrant, ShareRows
<1>2. t \in TokenRow
    BY <1>1 DEF TokenRow
<1>3. token' = token \cup {t}
    BY DEF AccessGrant
<1> HIDE DEF t
<1>4. token' \subseteq TokenRow
    BY <1>2, <1>3 DEF ShareInv, ShareRows
<1> QED
    BY <1>4, EndKeeps DEF AccessGrant

-----------------------------------------------------------------------------
(* Steps that write shares.                                                *)

\* A change that keeps items and cancellations.
LEMMA SharesRewritten ==
    ASSUME ShareInv, UNCHANGED vreq \/ \E v \in Visitors : Finished(v),
           UNCHANGED <<day, kept, purged, refs, drive, token>>,
           share' \in [Codes -> ShareRow],
           \A c \in Codes : /\ share'[c].items = share[c].items /\ share'[c].late = share[c].late
                            /\ share[c].st = "cancelled" => share'[c].st = "cancelled",
           withdrawn \subseteq withdrawn',
           \A c \in withdrawn' \ withdrawn : c \in Codes /\ share'[c].st = "cancelled"
    PROVE  ShareInv'
<1> USE DEF ShareInv
<1>1. OnlyEnd
    BY EndsOnly
<1>2. VisitorsKnown'
    BY <1>1, EndKnown
<1>3. \A w \in Visitors : vreq'[w] = vreq[w] \/ vreq'[w].pc = "idle"
    BY <1>1, IdleKnown DEF OnlyEnd
<1>4. SaverLocked'
    BY <1>3, LockKept
<1>5. UnlinkFinds' /\ LinksCleaned'
    BY <1>3, LinksKept
<1>6. ShareRows' /\ WithdrawnCancelled'
    BY DEF ShareRows, WithdrawnCancelled
<1> QED
    BY <1>2, <1>4, <1>5, <1>6, AccountKept

\* Update, Cancel, and an administrator's list.
LEMMA ShareWrites ==
    ASSUME ShareInv,
           \/ \E v \in Visitors, p \in Permissions, d \in 0..MaxDay : UpdateWrite(v, p, d)
           \/ \E v \in Visitors : CancelWrite(v)
           \/ DisableEmptyShares
    PROVE  ShareInv'
<1>0. share \in [Codes -> ShareRow]
    BY DEF ShareInv, ShareRows
<1>1. ASSUME NEW v \in Visitors, NEW p \in Permissions, NEW d \in 0..MaxDay, UpdateWrite(v, p, d)
      PROVE  ShareInv'
  <2> DEFINE c == vreq[v].code
             row == [share[c] EXCEPT !.exp = d, !.perm = p]
  <2>0. 0..MaxDay \subseteq Nat
      BY ShareAssumption
  <2>1. c \in Codes /\ d \in Nat
      BY <1>1, <2>0 DEF ShareInv, VisitorsKnown, VisitorKnown, UpdateWrite
  <2>2. /\ row \in ShareRow /\ row.items = share[c].items /\ row.late = share[c].late
        /\ row.st = share[c].st
      BY <1>0, <2>1 DEF ShareRow
  <2>3. share' = [share EXCEPT ![c] = row]
      BY <1>1, Zenon DEF UpdateWrite
  <2> HIDE DEF c, row
  <2>4. /\ share' \in [Codes -> ShareRow]
        /\ \A e \in Codes : e # c => share'[e] = share[e]
        /\ share'[c] = row
      BY <1>0, <2>1, <2>2, <2>3
  <2>5. \A e \in Codes : /\ share'[e].items = share[e].items /\ share'[e].late = share[e].late
                         /\ share[e].st = "cancelled" => share'[e].st = "cancelled"
      BY <2>2, <2>4
  <2> QED
      BY <1>1, <2>4, <2>5, SharesRewritten DEF UpdateWrite
<1>2. ASSUME NEW v \in Visitors, CancelWrite(v) PROVE ShareInv'
  <2> DEFINE c == vreq[v].code
             row == [share[c] EXCEPT !.st = "cancelled"]
  <2>1. c \in Codes
      BY <1>2 DEF ShareInv, VisitorsKnown, VisitorKnown, CancelWrite
  <2>2. /\ row \in ShareRow /\ row.items = share[c].items /\ row.late = share[c].late
        /\ row.st = "cancelled"
      BY <1>0, <2>1 DEF ShareRow
  <2>3. share' = [share EXCEPT ![c] = row] /\ withdrawn' = withdrawn \cup {c}
      BY <1>2 DEF CancelWrite
  <2> HIDE DEF c, row
  <2>4. /\ share' \in [Codes -> ShareRow]
        /\ \A e \in Codes : e # c => share'[e] = share[e]
        /\ share'[c] = row
      BY <1>0, <2>1, <2>2, <2>3
  <2>5. \A e \in Codes : /\ share'[e].items = share[e].items /\ share'[e].late = share[e].late
                         /\ share[e].st = "cancelled" => share'[e].st = "cancelled"
      BY <2>2, <2>4
  <2>6. \A e \in withdrawn' \ withdrawn : e \in Codes /\ share'[e].st = "cancelled"
      BY <2>1, <2>2, <2>3, <2>4
  <2> QED
      BY <1>2, <2>3, <2>4, <2>5, <2>6, SharesRewritten DEF CancelWrite
<1>3. CASE DisableEmptyShares
  <2> DEFINE row(c) == [share[c] EXCEPT !.st = "cancelled"]
  <2>1. ASSUME NEW c \in Codes
        PROVE  /\ row(c) \in ShareRow /\ row(c).items = share[c].items /\ row(c).late = share[c].late
               /\ row(c).st = "cancelled"
      BY <1>0 DEF ShareRow
  <2>2. share' = [c \in Codes |-> IF share[c].st = "active" /\ share[c].items = {} THEN row(c) ELSE share[c]]
      BY <1>3 DEF DisableEmptyShares
  <2> HIDE DEF row
  <2>3. /\ share' \in [Codes -> ShareRow]
        /\ \A c \in Codes : share'[c] = share[c] \/ share'[c] = row(c)
      BY <1>0, <2>1, <2>2
  <2>4. \A c \in Codes : /\ share'[c].items = share[c].items /\ share'[c].late = share[c].late
                         /\ share[c].st = "cancelled" => share'[c].st = "cancelled"
      BY <2>1, <2>3
  <2> QED
      BY <1>3, <2>3, <2>4, SharesRewritten DEF DisableEmptyShares
<1> QED
    BY <1>1, <1>2, <1>3

\* Create links what a running deletion has already looked for only as late.
LEMMA InsertKeeps ==
    ASSUME ShareInv, NEW v \in Visitors, NEW p \in Permissions, NEW d \in 0..MaxDay, CreateInsert(v, p, d)
    PROVE  ShareInv'
<1> USE DEF ShareInv
<1>1. CASE share' = share
    BY <1>1, EndKeeps DEF CreateInsert, ShareRows
<1>2. CASE share' # share
  <2> DEFINE is == vreq[v].items
             row == [st |-> "active", exp |-> d, perm |-> p, items |-> is, late |-> is \ Linkable]
  <2>1. PICK c \in Codes : share[c].st = "none" /\ share' = [share EXCEPT ![c] = row]
      BY <1>2 DEF CreateInsert
  <2>2. 0..MaxDay \subseteq Nat
      BY ShareAssumption
  <2>3. is \subseteq Items
      BY DEF VisitorsKnown, VisitorRow
  <2>4. row \in ShareRow /\ row.items = is /\ row.late = is \ Linkable
      BY <2>2, <2>3 DEF ShareRow
  <2> HIDE DEF row, is
  <2>5. /\ share' \in [Codes -> ShareRow] /\ share'[c] = row
        /\ \A e \in Codes : e # c => share'[e] = share[e]
      BY <2>1, <2>4 DEF ShareRows
  <2>6. OnlyEnd /\ UNCHANGED <<day, kept, purged, refs, drive, token, withdrawn>>
      BY EndsOnly DEF CreateInsert
  <2>7. VisitorsKnown'
      BY <2>6, EndKnown
  <2>8. \A w \in Visitors : vreq'[w] = vreq[w] \/ vreq'[w].pc = "idle"
      BY <2>6, IdleKnown DEF OnlyEnd
  <2>9. SaverLocked'
      BY <2>6, <2>8, LockKept
  <2>10. c \notin withdrawn
      BY <2>1 DEF WithdrawnCancelled
  <2>11. WithdrawnCancelled'
      BY <2>5, <2>6, <2>10 DEF WithdrawnCancelled
  <2>12. ShareRows'
      BY <2>5, <2>6 DEF ShareRows
  <2>13. Linkable \subseteq kept
      BY DEF Linkable
  <2>14. \A w \in Visitors : vreq[w].pc = "unlink" => vreq[w].items \cap Linkable = {}
      BY DEF Linkable
  <2>15. LinksCleaned'
    <3> SUFFICES ASSUME NEW e \in Codes PROVE share'[e].items \ kept \subseteq share'[e].late
        BY <2>6 DEF LinksCleaned
    <3>1. CASE e = c
        BY <3>1, <2>4, <2>5, <2>13
    <3>2. CASE e # c
        BY <3>2, <2>5 DEF LinksCleaned
    <3> QED
        BY <3>1, <3>2
  <2>16. UnlinkFinds'
    <3> SUFFICES ASSUME NEW w \in Visitors, NEW e \in Codes, vreq'[w].pc = "unlink", e \notin vreq'[w].linked
                 PROVE  share'[e].items \cap vreq'[w].items \subseteq share'[e].late
        BY DEF UnlinkFinds
    <3>1. vreq'[w] = vreq[w] /\ vreq[w].pc = "unlink"
        BY <2>8
    <3>2. CASE e = c
        BY <3>1, <3>2, <2>4, <2>5, <2>14
    <3>3. CASE e # c
        BY <3>1, <3>3, <2>5 DEF UnlinkFinds
    <3> QED
        BY <3>2, <3>3
  <2> QED
      BY <2>6, <2>7, <2>9, <2>11, <2>12, <2>15, <2>16, AccountKept
<1> QED
    BY <1>1, <1>2

\* A deletion looks for every link there is.
LEMMA CleanupKeeps ==
    ASSUME ShareInv, NEW v \in Visitors, NEW i \in Items, TrashCleanup(v, i)
    PROVE  ShareInv'
<1> USE DEF ShareInv
<1> DEFINE q == Starts("unlink")
           pl == {c \in Codes : share[c].st = "active" /\ share[c].items = {i}}
           ln == LinkedShares(i)
           r == [q EXCEPT !.items = {i}, !.linked = ln, !.plan = pl]
<1>1. Continues(v, r) /\ UNCHANGED <<day, share, kept, purged, refs, drive, token, withdrawn>>
    BY DEF TrashCleanup
<1>2. q \in VisitorRow /\ q.pc = "unlink" /\ q.barred = {}
  <2>1. "unlink" \in VisitorSteps
      BY DEF VisitorSteps
  <2> QED
      BY <2>1, StartsRow
<1>3. pl \in SUBSET (SharedFiles \cup Codes) /\ ln \in SUBSET Codes /\ {i} \in SUBSET Items
    BY DEF LinkedShares
<1>4. \A c \in Codes : c \notin ln => i \notin share[c].items
    BY DEF LinkedShares
<1> HIDE DEF q, pl, ln
<1>5. r \in VisitorRow /\ r.pc = "unlink" /\ r.barred = {} /\ r.items = {i} /\ r.linked = ln
    BY <1>2, <1>3 DEF VisitorRow
<1>6. VisitorKnown(r)
    BY <1>5 DEF VisitorKnown, Granted
<1> HIDE DEF r
<1>7. VisitorsKnown' /\ vreq'[v] = r /\ \A w \in Visitors : w # v => vreq'[w] = vreq[w]
    BY <1>1, <1>6, VisitorMoves
<1>8. SaverLocked'
    BY <1>1, <1>5, <1>7, LockKept
<1>9. UnlinkFinds'
  <2> SUFFICES ASSUME NEW w \in Visitors, NEW c \in Codes, vreq'[w].pc = "unlink", c \notin vreq'[w].linked
               PROVE  share[c].items \cap vreq'[w].items \subseteq share[c].late
      BY <1>1 DEF UnlinkFinds
  <2>1. CASE w = v
      BY <2>1, <1>4, <1>5, <1>7
  <2>2. CASE w # v
      BY <2>2, <1>7 DEF UnlinkFinds
  <2> QED
      BY <2>1, <2>2
<1>10. ShareRows' /\ WithdrawnCancelled' /\ LinksCleaned'
    BY <1>1 DEF ShareRows, WithdrawnCancelled, LinksCleaned
<1> QED
    BY <1>1, <1>7, <1>8, <1>9, <1>10, AccountKept

\* The deletion commits: what it found is unlinked, the rest is late.
LEMMA CommitKeeps ==
    ASSUME ShareInv, NEW v \in Visitors, TrashCommit(v)
    PROVE  ShareInv'
<1> USE DEF ShareInv
<1> DEFINE gone == vreq[v].items
           ln == vreq[v].linked
           pl == vreq[v].plan
           row(c) == [share[c] EXCEPT !.items = IF c \in ln THEN @ \ gone ELSE @,
                                      !.st = IF c \in pl /\ @ = "active" THEN "cancelled" ELSE @]
<1>1. /\ vreq[v].pc = "unlink" /\ kept' = kept \ gone /\ share' = [c \in Codes |-> row(c)]
      /\ UNCHANGED <<day, purged, refs, drive, token, withdrawn>> /\ Finished(v)
    BY DEF TrashCommit
<1>2. ASSUME NEW c \in Codes
      PROVE  /\ row(c) \in ShareRow /\ row(c).late = share[c].late
             /\ row(c).items = IF c \in ln THEN share[c].items \ gone ELSE share[c].items
             /\ share[c].st = "cancelled" => row(c).st = "cancelled"
  <2> DEFINE it == IF c \in ln THEN share[c].items \ gone ELSE share[c].items
             st == IF c \in pl /\ share[c].st = "active" THEN "cancelled" ELSE share[c].st
  <2>1. share[c] \in ShareRow
      BY DEF ShareRows
  <2>2. row(c) = [share[c] EXCEPT !.items = it, !.st = st]
      BY <2>1 DEF ShareRow
  <2>3. it \in SUBSET Items /\ st \in {"none", "active", "cancelled"} /\ (share[c].st = "cancelled" => st = "cancelled")
      BY <2>1 DEF ShareRow
  <2> HIDE DEF it, st, row
  <2>4. row(c) \in ShareRow /\ row(c).late = share[c].late /\ row(c).items = it /\ row(c).st = st
      BY <2>1, <2>2, <2>3 DEF ShareRow
  <2> QED
      BY <2>3, <2>4 DEF it
<1> HIDE DEF row
<1>3. share' \in [Codes -> ShareRow] /\ \A c \in Codes : share'[c] = row(c)
    BY <1>1, <1>2
<1>4. OnlyEnd
    BY <1>1, EndsOnly
<1>5. VisitorsKnown'
    BY <1>1, <1>4, EndKnown
<1>6. \A w \in Visitors : vreq'[w] = vreq[w] \/ vreq'[w].pc = "idle"
    BY <1>4, IdleKnown DEF OnlyEnd
<1>7. SaverLocked'
    BY <1>1, <1>6, LockKept
<1>8. ShareRows'
    BY <1>1, <1>3 DEF ShareRows
<1>9. WithdrawnCancelled'
    BY <1>1, <1>2, <1>3 DEF WithdrawnCancelled
<1>10. UnlinkFinds'
  <2> SUFFICES ASSUME NEW w \in Visitors, NEW c \in Codes, vreq'[w].pc = "unlink", c \notin vreq'[w].linked
               PROVE  share'[c].items \cap vreq'[w].items \subseteq share'[c].late
      BY DEF UnlinkFinds
  <2>1. vreq'[w] = vreq[w] /\ share[c].items \cap vreq[w].items \subseteq share[c].late
      BY <1>6 DEF UnlinkFinds
  <2>2. share'[c].items \subseteq share[c].items /\ share'[c].late = share[c].late
      BY <1>2, <1>3
  <2> QED
      BY <2>1, <2>2
<1>11. LinksCleaned'
  <2> SUFFICES ASSUME NEW c \in Codes PROVE share'[c].items \ kept' \subseteq share'[c].late
      BY DEF LinksCleaned
  <2>1. share[c].items \ kept \subseteq share[c].late /\ share'[c].late = share[c].late
      BY <1>2, <1>3 DEF LinksCleaned
  <2>2. CASE c \in ln
    <3>1. share'[c].items = share[c].items \ gone
        BY <2>2, <1>2, <1>3
    <3> HIDE DEF gone
    <3> QED
        BY <2>1, <3>1, <1>1
  <2>3. CASE c \notin ln
    <3>1. share'[c].items = share[c].items
        BY <2>3, <1>2, <1>3
    <3>2. share[c].items \cap gone \subseteq share[c].late
        BY <2>3, <1>1 DEF UnlinkFinds
    <3> HIDE DEF gone
    <3> QED
        BY <2>1, <3>1, <3>2, <1>1
  <2> QED
      BY <2>2, <2>3
<1> QED
    BY <1>1, <1>5, <1>7, <1>8, <1>9, <1>10, <1>11, AccountKept

-----------------------------------------------------------------------------
(* The saver's drive, purges, failures.                                    *)

\* The tested and locked row: nobody else is between test and charge.
LEMMA QuotaKeeps ==
    ASSUME ShareInv, NEW v \in Visitors, SaveQuota(v)
    PROVE  ShareInv'
<1> USE DEF ShareInv
<1> DEFINE r == [vreq[v] EXCEPT !.pc = "copy"]
<1>1. CASE Finished(v) /\ UNCHANGED drive
    BY <1>1, EndKeeps DEF SaveQuota, ShareRows
<1>2. CASE /\ SaveFits(Cardinality(vreq[v].plan)) /\ drive' = [drive EXCEPT !.locked = TRUE]
           /\ Continues(v, r)
  <2>1. /\ vreq[v].pc = "quota" /\ ~drive.locked
        /\ UNCHANGED <<day, share, kept, purged, refs, token, withdrawn>>
      BY DEF SaveQuota
  <2>2. /\ vreq[v] \in VisitorRow /\ vreq[v].plan \subseteq SharedFiles /\ vreq[v].code \in Codes
        /\ vreq[v].code \notin vreq[v].barred
      BY <2>1 DEF VisitorsKnown, VisitorKnown, Granted
  <2>3. "copy" \in VisitorSteps
      BY DEF VisitorSteps
  <2>4. VisitorKnown(r) /\ r.pc = "copy"
      BY <2>2, <2>3, GoesOnKnown
  <2>5. r.plan = vreq[v].plan
      BY <2>2 DEF VisitorRow
  <2> HIDE DEF r
  <2>6. VisitorsKnown' /\ vreq'[v] = r /\ \A w \in Visitors : w # v => vreq'[w] = vreq[w]
      BY <1>2, <2>1, <2>4, VisitorMoves
  <2>7. /\ drive' \in DriveRow /\ drive'.used = drive.used /\ drive'.names = drive.names
        /\ drive'.folder = drive.folder /\ drive'.count = drive.count /\ drive'.locked
      BY <1>2 DEF DriveRow, ShareRows
  <2>8. \A w \in Visitors : vreq[w].pc # "copy"
      BY <2>1 DEF SaverLocked
  <2>9. \A w \in Visitors : vreq'[w].pc = "copy" => w = v
      BY <2>6, <2>8
  <2>10. SaverLocked'
      BY <1>2, <2>5, <2>6, <2>7, <2>9 DEF SaverLocked, SaveFits
  <2>11. UnlinkFinds' /\ LinksCleaned'
      BY <2>1, <2>4, <2>6, LinksKept
  <2>12. ShareRows' /\ WithdrawnCancelled'
      BY <2>1, <2>7 DEF ShareRows, WithdrawnCancelled
  <2>13. SavedCopiesReferenced' /\ SaverChargedForCopies'
      BY <2>1, <2>7 DEF SavedCopiesReferenced, SaverChargedForCopies
  <2> QED
      BY <2>6, <2>10, <2>11, <2>12, <2>13
<1> QED
    BY <1>1, <1>2 DEF SaveQuota

\* A request between test and charge ends: the lock is free again.
LEMMA UnlockKeeps ==
    ASSUME ShareInv, NEW v \in Visitors, Finished(v), vreq[v].pc = "copy",
           UNCHANGED <<day, share, kept, purged, token, withdrawn>>,
           drive' \in DriveRow, drive'.used <= SaverQuota, refs' \in [SharedFiles -> Nat],
           SavedCopiesReferenced', SaverChargedForCopies'
    PROVE  ShareInv'
<1> USE DEF ShareInv
<1>1. OnlyEnd
    BY EndsOnly
<1>2. VisitorsKnown'
    BY <1>1, EndKnown
<1>3. \A w \in Visitors : vreq'[w] = vreq[w] \/ vreq'[w].pc = "idle"
    BY <1>1, IdleKnown DEF OnlyEnd
<1>4. \A w \in Visitors : vreq'[w].pc # "copy"
  <2>1. vreq'[v].pc = "idle"
      BY IdleKnown DEF Finished, VisitorsKnown
  <2>2. \A w \in Visitors : w # v => vreq[w].pc # "copy"
      BY DEF SaverLocked
  <2> QED
      BY <1>3, <2>1, <2>2
<1>5. SaverLocked'
    BY <1>4 DEF SaverLocked
<1>6. UnlinkFinds' /\ LinksCleaned'
    BY <1>3, LinksKept
<1>7. ShareRows' /\ WithdrawnCancelled'
    BY DEF ShareRows, WithdrawnCancelled
<1> QED
    BY <1>2, <1>5, <1>6, <1>7

\* The charge: what is inserted is referenced, counted and paid for.
LEMMA CopyKeeps ==
    ASSUME ShareInv, NEW v \in Visitors, SaveCopy(v)
    PROVE  ShareInv'
<1> USE DEF ShareInv
<1> DEFINE plan == vreq[v].plan
           fresh == SaveFresh(plan)
           used == SaveCharge(Cardinality(plan), Cardinality(fresh))
           count == IF drive.folder THEN drive.count + Cardinality(fresh) ELSE drive.count
<1>1. /\ vreq[v].pc = "copy" /\ Finished(v) /\ UNCHANGED <<day, share, kept, purged, token, withdrawn>>
    BY DEF SaveCopy
<1>2. drive \in DriveRow /\ drive.used \in Nat /\ drive.count \in Nat /\ drive.names \subseteq SharedFiles
    BY DEF ShareRows, DriveRow
<1>3. plan \subseteq SharedFiles /\ drive.used + Cardinality(plan) <= SaverQuota /\ drive.used <= SaverQuota
    BY <1>1 DEF VisitorsKnown, VisitorKnown, SaverLocked, SaveFits
<1>4. fresh \subseteq plan /\ fresh \cap drive.names = {} /\ fresh \subseteq SharedFiles
    BY <1>3 DEF SaveFresh
<1>5. CASE drive' = [drive EXCEPT !.locked = FALSE] /\ UNCHANGED refs
  <2>1. /\ drive' \in DriveRow /\ drive'.used = drive.used /\ drive'.names = drive.names
        /\ drive'.folder = drive.folder /\ drive'.count = drive.count
      BY <1>2, <1>5 DEF DriveRow
  <2>2. SavedCopiesReferenced' /\ SaverChargedForCopies'
      BY <1>1, <1>5, <2>1 DEF SavedCopiesReferenced, SaverChargedForCopies
  <2> QED
      BY <1>1, <1>3, <1>5, <2>1, <2>2, UnlockKeeps DEF ShareRows
<1>6. CASE /\ refs' = [f \in SharedFiles |-> IF f \in fresh THEN refs[f] + 1 ELSE refs[f]]
           /\ drive' = [drive EXCEPT !.used = used, !.names = drive.names \cup fresh, !.locked = FALSE,
                                     !.count = count]
  <2>1. /\ Cardinality(plan) \in Nat /\ Cardinality(fresh) \in Nat /\ Cardinality(drive.names) \in Nat
        /\ IsFiniteSet(plan) /\ IsFiniteSet(fresh) /\ IsFiniteSet(drive.names)
      BY <1>2, <1>3, <1>4, FilesFinite
  <2>2. Cardinality(fresh) <= Cardinality(plan)
      BY <1>4, <2>1, FS_Subset
  <2>3. used = drive.used + Cardinality(fresh)
      BY <1>2, <2>1, <2>2 DEF SaveCharge
  <2>4. Cardinality(drive.names \cup fresh) = Cardinality(drive.names) + Cardinality(fresh)
    <3>1. Cardinality(drive.names \cap fresh) = 0
      <4>1. drive.names \cap fresh = {}
          BY <1>4
      <4> QED
          BY <4>1, FS_EmptySet
    <3>2. Cardinality(drive.names \cup fresh) =
              Cardinality(drive.names) + Cardinality(fresh) - Cardinality(drive.names \cap fresh)
        BY <2>1, FS_Union
    <3> QED
        BY <3>1, <3>2, <2>1
  <2>5. used \in Nat /\ used <= SaverQuota /\ count \in Nat /\ drive.names \cup fresh \in SUBSET SharedFiles
      BY <1>2, <1>3, <1>4, <2>1, <2>2, <2>3, ShareAssumption
  <2>6. count = IF drive.folder THEN drive.count + Cardinality(fresh) ELSE drive.count
      OBVIOUS
  <2> HIDE DEF fresh, used, count, plan
  <2>7. /\ drive' \in DriveRow /\ drive'.used = used /\ drive'.names = drive.names \cup fresh
        /\ drive'.folder = drive.folder /\ drive'.count = count
      BY <1>2, <1>6, <2>5 DEF DriveRow
  <2>8. refs' \in [SharedFiles -> Nat]
      BY <1>6 DEF ShareRows
  <2>9. SavedCopiesReferenced'
    <3> SUFFICES ASSUME NEW f \in SharedFiles
                 PROVE  refs'[f] = Cardinality({i \in Items \ purged : f \in FilesOf[i]})
                                    + (IF f \in drive'.names THEN 1 ELSE 0)
        BY <1>1 DEF SavedCopiesReferenced
    <3> DEFINE n == Cardinality({i \in Items \ purged : f \in FilesOf[i]})
    <3>1. refs[f] = n + (IF f \in drive.names THEN 1 ELSE 0)
        BY DEF SavedCopiesReferenced
    <3>2. n \in Nat
        BY OneOwner, OwnersCounted
    <3> HIDE DEF n
    <3>3. refs'[f] = IF f \in fresh THEN refs[f] + 1 ELSE refs[f]
        BY <1>6
    <3>4. refs'[f] = n + (IF f \in drive'.names THEN 1 ELSE 0)
        BY <1>4, <2>7, <3>1, <3>2, <3>3
    <3> QED
        BY <3>4 DEF n
  <2>10. SaverChargedForCopies'
    <3>1. drive.used = Cardinality(drive.names) /\ (drive.folder => drive.count = Cardinality(drive.names))
        BY DEF SaverChargedForCopies
    <3>2. drive'.used = Cardinality(drive'.names)
        BY <2>3, <2>4, <2>7, <3>1
    <3>3. drive'.folder => drive'.count = Cardinality(drive'.names)
        BY <2>4, <2>6, <2>7, <3>1
    <3> QED
        BY <3>2, <3>3 DEF SaverChargedForCopies
  <2> QED
      BY <1>1, <2>5, <2>7, <2>8, <2>9, <2>10, UnlockKeeps
<1> QED
    BY <1>5, <1>6 DEF SaveCopy

\* A failed request gives the lock back only when it held it.
LEMMA FailureKeeps ==
    ASSUME ShareInv, NEW v \in Visitors, VisitorFails(v)
    PROVE  ShareInv'
<1> USE DEF ShareInv
<1>1. /\ Finished(v) /\ UNCHANGED <<day, share, kept, purged, refs, token, withdrawn>>
      /\ drive' = [drive EXCEPT !.locked = drive.locked /\ vreq[v].pc # "copy"]
    BY DEF VisitorFails
<1>2. drive \in DriveRow
    BY DEF ShareRows
<1>3. CASE vreq[v].pc = "copy"
  <2>1. drive' = [drive EXCEPT !.locked = FALSE]
      BY <1>1, <1>3
  <2>2. /\ drive' \in DriveRow /\ drive'.used = drive.used /\ drive'.names = drive.names
        /\ drive'.folder = drive.folder /\ drive'.count = drive.count
      BY <1>2, <2>1 DEF DriveRow
  <2>3. SavedCopiesReferenced' /\ SaverChargedForCopies'
      BY <1>1, <2>2 DEF SavedCopiesReferenced, SaverChargedForCopies
  <2> QED
      BY <1>1, <1>3, <2>2, <2>3, UnlockKeeps DEF ShareRows, SaverLocked
<1>4. CASE vreq[v].pc # "copy"
  <2>1. (drive.locked /\ vreq[v].pc # "copy") = drive.locked
      BY <1>2, <1>4 DEF DriveRow
  <2>2. drive' = [drive EXCEPT !.locked = drive.locked]
      BY <1>1, <2>1
  <2>3. drive' = drive
      BY <1>2, <2>2 DEF DriveRow
  <2> QED
      BY <1>1, <2>3, EndKeeps DEF ShareRows
<1> QED
    BY <1>3, <1>4

\* An item is purged once, so its files lose the owner's reference once.
LEMMA PurgeKeeps ==
    ASSUME ShareInv, NEW i \in Items, PurgeItem(i)
    PROVE  ShareInv'
<1> USE DEF ShareInv
<1>1. /\ i \notin kept /\ i \notin purged /\ purged' = purged \cup {i}
      /\ refs' = [f \in SharedFiles |-> IF f \in FilesOf[i] THEN refs[f] - 1 ELSE refs[f]]
      /\ UNCHANGED <<day, share, kept, drive, token, vreq, withdrawn>>
    BY DEF PurgeItem, CanPurge
<1>2. ASSUME NEW f \in SharedFiles
      PROVE  /\ refs'[f] \in Nat
             /\ refs'[f] = Cardinality({j \in Items \ purged' : f \in FilesOf[j]})
                           + (IF f \in drive.names THEN 1 ELSE 0)
  <2>1. PICK o \in Items : f \in FilesOf[o] /\ \A j \in Items : f \in FilesOf[j] => j = o
      BY OneOwner
  <2>2. /\ Cardinality({j \in Items \ purged : f \in FilesOf[j]}) = IF o \in purged THEN 0 ELSE 1
        /\ Cardinality({j \in Items \ purged' : f \in FilesOf[j]}) = IF o \in purged' THEN 0 ELSE 1
      BY <2>1, OwnersCounted
  <2>3. refs[f] = (IF o \in purged THEN 0 ELSE 1) + (IF f \in drive.names THEN 1 ELSE 0)
      BY <2>2 DEF SavedCopiesReferenced
  <2>4. f \in FilesOf[i] <=> i = o
      BY <2>1
  <2>5. refs'[f] = IF i = o THEN refs[f] - 1 ELSE refs[f]
      BY <1>1, <2>4
  <2>6. o \in purged' <=> o \in purged \/ o = i
      BY <1>1
  <2>7. /\ refs'[f] \in Nat
        /\ refs'[f] = (IF o \in purged' THEN 0 ELSE 1) + (IF f \in drive.names THEN 1 ELSE 0)
      BY <1>1, <2>3, <2>5, <2>6
  <2> QED
      BY <2>2, <2>7
<1>3. refs' \in [SharedFiles -> Nat]
    BY <1>1, <1>2
<1>4. SavedCopiesReferenced'
    BY <1>1, <1>2 DEF SavedCopiesReferenced
<1>5. ShareRows'
    BY <1>1, <1>3 DEF ShareRows
<1>6. VisitorsKnown' /\ WithdrawnCancelled' /\ LinksCleaned' /\ UnlinkFinds'
    BY <1>1 DEF VisitorsKnown, VisitorKnown, WithdrawnCancelled, LinksCleaned, UnlinkFinds
<1>7. SaverLocked' /\ SaverChargedForCopies'
    BY <1>1 DEF SaverLocked, SaveFits, SaverChargedForCopies
<1> QED
    BY <1>4, <1>5, <1>6, <1>7

\* The empty target folder goes, and time passes.
LEMMA OthersKeep ==
    ASSUME ShareInv, TargetRemoved \/ DayPasses
    PROVE  ShareInv'
<1> USE DEF ShareInv
<1>1. UNCHANGED <<share, kept, purged, refs, token, vreq, withdrawn>>
    BY DEF TargetRemoved, DayPasses
<1>2. /\ drive' \in DriveRow /\ drive'.used = drive.used /\ drive'.names = drive.names
      /\ drive'.count = drive.count /\ drive'.locked = drive.locked
      /\ drive'.folder => drive.folder
    BY DEF TargetRemoved, DayPasses, ShareRows, DriveRow
<1>3. day' \in 0..MaxDay
    BY ShareAssumption DEF TargetRemoved, DayPasses, ShareRows
<1>4. ShareRows'
    BY <1>1, <1>2, <1>3 DEF ShareRows
<1>5. VisitorsKnown' /\ WithdrawnCancelled' /\ LinksCleaned' /\ UnlinkFinds'
    BY <1>1 DEF VisitorsKnown, VisitorKnown, WithdrawnCancelled, LinksCleaned, UnlinkFinds
<1>6. SaverLocked'
    BY <1>1, <1>2 DEF SaverLocked, SaveFits
<1>7. SavedCopiesReferenced' /\ SaverChargedForCopies'
    BY <1>1, <1>2 DEF SavedCopiesReferenced, SaverChargedForCopies
<1> QED
    BY <1>4, <1>5, <1>6, <1>7

-----------------------------------------------------------------------------
(* The invariant and what follows from it.                                 *)

\* At the start there are no shares, and every file has its owner's reference.
LEMMA ShareInvInit == ShareInit => ShareInv
<1> SUFFICES ASSUME ShareInit PROVE ShareInv
    OBVIOUS
<1> USE DEF ShareInit
<1>1. NoShare \in ShareRow /\ NoShare.items = {} /\ NoShare.st = "none"
    BY DEF NoShare, ShareRow, Permissions
<1>2. drive \in DriveRow /\ drive.used = 0 /\ drive.names = {} /\ drive.count = 0
    BY DEF DriveRow
<1>3. share \in [Codes -> ShareRow] /\ \A c \in Codes : share[c] = NoShare
    BY <1>1
<1>4. ShareRows
    BY <1>2, <1>3, ShareAssumption DEF ShareRows
<1>5. VisitorsKnown /\ \A v \in Visitors : vreq[v].pc = "idle"
    BY IdleKnown DEF VisitorsKnown
<1>6. WithdrawnCancelled /\ UnlinkFinds
    BY <1>5 DEF WithdrawnCancelled, UnlinkFinds
<1>7. LinksCleaned
    BY <1>1, <1>3 DEF LinksCleaned
<1>8. SaverLocked
    BY <1>2, <1>5, ShareAssumption DEF SaverLocked
<1>9. SaverChargedForCopies
    BY <1>2, FS_EmptySet DEF SaverChargedForCopies
<1>10. SavedCopiesReferenced
  <2> SUFFICES ASSUME NEW f \in SharedFiles
               PROVE  refs[f] = Cardinality({i \in Items \ purged : f \in FilesOf[i]})
                                 + (IF f \in drive.names THEN 1 ELSE 0)
      BY DEF SavedCopiesReferenced
  <2>1. Cardinality({i \in Items \ purged : f \in FilesOf[i]}) = 1
      BY OneOwner, OwnersCounted
  <2> QED
      BY <1>2, <2>1
<1> QED
    BY <1>4, <1>5, <1>6, <1>7, <1>8, <1>9, <1>10 DEF ShareInv

\* Every step keeps the invariant.
LEMMA ShareInvStep == ShareInv /\ [ShareNext]_shareVars => ShareInv'
<1> SUFFICES ASSUME ShareInv, [ShareNext]_shareVars PROVE ShareInv'
    OBVIOUS
<1>1. CASE UNCHANGED shareVars
    BY <1>1 DEF shareVars, ShareInv, ShareRows, VisitorsKnown, VisitorKnown, WithdrawnCancelled, SaverLocked,
                SaveFits, SavedCopiesReferenced, SaverChargedForCopies, UnlinkFinds, LinksCleaned
<1>2. CASE DayPasses \/ DisableEmptyShares \/ TargetRemoved \/ \E i \in Items : PurgeItem(i)
    BY <1>2, OthersKeep, ShareWrites, PurgeKeeps
<1>3. ASSUME NEW v \in Visitors,
        \/ \E is \in SUBSET Items : CreateValidate(v, is)
        \/ \E p \in Permissions, d \in 0..MaxDay :
              CreateInsert(v, p, d) \/ UpdateWrite(v, p, d)
        \/ \E c \in Codes : UpdateRead(v, c) \/ CancelRead(v, c)
        \/ \E c \in Codes, right \in BOOLEAN : AccessCheck(v, c, right)
        \/ \E t \in token, op \in {"browse", "download", "save"} : ShareAuthFilter(v, t, op)
        \/ \E f \in SharedFiles : GetDownloadInfo(v, f)
        \/ \E fs \in SUBSET SharedFiles : SavePlan(v, fs)
        \/ CancelWrite(v) \/ AccessGrant(v) \/ BrowseActive(v) \/ BrowseList(v)
        \/ CompleteDownload(v) \/ SaveCheck(v) \/ SaveQuota(v) \/ SaveCopy(v)
        \/ \E i \in Items : TrashCleanup(v, i)
        \/ TrashCommit(v) \/ VisitorFails(v)
      PROVE  ShareInv'
  <2>1. CASE \/ \E is \in SUBSET Items : CreateValidate(v, is)
             \/ \E c \in Codes : UpdateRead(v, c) \/ CancelRead(v, c)
      BY <2>1, OwnerReads
  <2>2. CASE \E p \in Permissions, d \in 0..MaxDay : CreateInsert(v, p, d) \/ UpdateWrite(v, p, d)
      BY <2>2, InsertKeeps, ShareWrites
  <2>3. CASE \/ \E c \in Codes, right \in BOOLEAN : AccessCheck(v, c, right)
             \/ \E t \in token, op \in {"browse", "download", "save"} : ShareAuthFilter(v, t, op)
      BY <2>3, VisitorEnters
  <2>4. CASE \/ BrowseActive(v) \/ BrowseList(v) \/ CompleteDownload(v) \/ SaveCheck(v)
             \/ \E f \in SharedFiles : GetDownloadInfo(v, f)
             \/ \E fs \in SUBSET SharedFiles : SavePlan(v, fs)
      BY <2>4, VisitorReads
  <2>5. CASE CancelWrite(v) \/ AccessGrant(v)
      BY <2>5, ShareWrites, GrantKeeps
  <2>6. CASE SaveQuota(v) \/ SaveCopy(v) \/ VisitorFails(v)
      BY <2>6, QuotaKeeps, CopyKeeps, FailureKeeps
  <2>7. CASE (\E i \in Items : TrashCleanup(v, i)) \/ TrashCommit(v)
      BY <2>7, CleanupKeeps, CommitKeeps
  <2> QED
      BY <1>3, <2>1, <2>2, <2>3, <2>4, <2>5, <2>6, <2>7, Zenon
<1> QED
    BY <1>1, <1>2, <1>3, Zenon DEF ShareNext

\* The invariant holds in every state of every behaviour.
LEMMA ShareInvHolds == ShareSpec => []ShareInv
BY ShareInvInit, ShareInvStep, PTL DEF ShareSpec

\* Once a cancellation has been answered, no request that starts later gets a
\* token, a listing, a download or a saved copy out of the share, for any
\* number of shares, requests and tokens (ShareService::Access, Browse,
\* GetDownloadInfo, SaveToDrive).
THEOREM WithdrawnGrantsNothingHolds == ShareSpec => []WithdrawnGrantsNothing
<1>1. ShareInv => WithdrawnGrantsNothing
    BY DEF ShareInv, VisitorsKnown, VisitorKnown, WithdrawnGrantsNothing, Granted
<1> QED
    BY <1>1, ShareInvHolds, PTL

\* Saved copies are referenced and paid for within the quota, and no share
\* links a deleted item unless Create raced the deletion (SaveToDrive,
\* CleanupShareLinksForMovedItems).
THEOREM SharesAccountedHolds == ShareSpec => []SharesAccounted
<1>1. ASSUME ShareInv PROVE SharesAccounted
  <2> USE <1>1 DEF ShareInv
  <2>1. drive.used \in 0..SaverQuota /\ drive.names \subseteq SharedFiles
      BY ShareAssumption DEF ShareRows, DriveRow, SaverLocked
  <2>2. \A c \in Codes : /\ share[c].st \in {"none", "active", "cancelled"}
                         /\ share[c].perm \in Permissions /\ share[c].items \subseteq Items
      BY DEF ShareRows, ShareRow
  <2>3. \A t \in token : t.code \in Codes /\ t.scope \in Permissions
      BY DEF ShareRows, TokenRow
  <2>4. ShareTypeOK
      BY <2>1, <2>2, <2>3 DEF ShareTypeOK, ShareRows
  <2> QED
      BY <2>4 DEF SharesAccounted
<1> QED
    BY <1>1, ShareInvHolds, PTL

-----------------------------------------------------------------------------
(* Copies: the inductive invariant.                                        *)

CopySteps == {"idle", "reserve", "refused", "loop", "filesTx", "folderTx", "release", "leaked", "answered"}
CopyReqRow ==
    [pc : CopySteps, files : SUBSET Sources, folders : SUBSET SourceFolders, batch : SUBSET Sources,
     folder : SUBSET SourceFolders, valid : SUBSET Sources, release : Nat, next : {"idle", "loop"},
     total : Nat, actual : Nat, released : Nat]
CopySize == [x \in CopyRow |-> SizeOf[x.of]]

\* What is left of a plan, and what a request has taken out of it and not settled.
Rest(q) == Bytes(q.files) + Total(FolderBytes, q.folders)
Held(q) == IF q.pc \in {"filesTx", "folderTx"} THEN Bytes(q.batch)
           ELSE IF q.pc \in {"release", "leaked"} THEN q.release ELSE 0
InHand(q) == IF q.pc \in {"filesTx", "folderTx"} THEN q.batch ELSE {}

\* The bytes of a request: used, given back, in hand or still planned.
Balanced(q) ==
    /\ q.pc # "refused" => q.total = q.actual + q.released + Rest(q) + Held(q)
    /\ q.pc \in {"idle", "reserve", "refused"} => q.actual = 0 /\ q.released = 0
    /\ q.pc = "answered" => q.files = {} /\ q.folders = {}
    /\ q.pc = "filesTx" => q.valid \subseteq q.batch
    /\ q.pc = "release" => q.next = "loop"

\* A file is planned once.
PlannedOnce(q) ==
    /\ q.files \cap CoveredFiles(q.folders) = {}
    /\ \A d, e \in q.folders : d # e => InFolder[d] \cap InFolder[e] = {}
    /\ InHand(q) \cap (q.files \cup CoveredFiles(q.folders)) = {}

\* What the request c still plans to copy it has not copied yet.
NotYetCopied(c, q, cs) ==
    \A x \in cs : x.by = c => q.pc # "idle" /\ x.of \notin q.files \cup CoveredFiles(q.folders) \cup InHand(q)

CopyReqSound(c, q, cs) == q \in CopyReqRow /\ Balanced(q) /\ PlannedOnce(q) /\ NotYetCopied(c, q, cs)

CopyRows ==
    /\ space \in QuotaRow /\ alive \subseteq Sources
    /\ ref \in [Contents -> Int] /\ copied \subseteq CopyRow /\ IsFiniteSet(copied)
    /\ creq \in [CopyRequests -> CopyReqRow] /\ grant.quota \in Nat

ReservedOwed == space.reserved = Total([c \in CopyRequests |-> Owed(creq[c])], CopyRequests)

CopyInv ==
    /\ CopyRows /\ ReservedOwed /\ CopyUsedExact /\ CopyContentKept /\ CopiedOnce
    /\ \A c \in CopyRequests : CopyReqSound(c, creq[c], copied)

-----------------------------------------------------------------------------
(* Sums of bytes.                                                          *)

LEMMA BytesNat ==
    ASSUME NEW s \in SUBSET Sources
    PROVE  Bytes(s) \in Nat /\ IsFiniteSet(s)
<1>1. IsFiniteSet(s)
  BY FS_Subset, CopyAssumption
<1> QED
  BY <1>1, TotalNat, CopyAssumption DEF Bytes

LEMMA BytesSplit ==
    ASSUME NEW s \in SUBSET Sources, NEW t \in SUBSET s
    PROVE  Bytes(s) = Bytes(t) + Bytes(s \ t)
<1>1. IsFiniteSet(s)
  BY BytesNat
<1> QED
  BY <1>1, TotalSplit, CopyAssumption DEF Bytes

LEMMA BytesEmpty == Bytes({}) = 0
BY TotalEmpty, CopyAssumption DEF Bytes

LEMMA FolderBytesNat ==
    /\ FolderBytes \in [SourceFolders -> Nat]
    /\ \A ds \in SUBSET SourceFolders : Total(FolderBytes, ds) \in Nat /\ IsFiniteSet(ds)
    /\ Total(FolderBytes, {}) = 0
<1>1. \A d \in SourceFolders : Bytes(InFolder[d]) \in Nat
  BY BytesNat, CopyAssumption
<1>2. FolderBytes \in [SourceFolders -> Nat]
  BY <1>1 DEF FolderBytes
<1>3. \A ds \in SUBSET SourceFolders : IsFiniteSet(ds)
  BY FS_Subset, CopyAssumption
<1> QED
  BY <1>2, <1>3, TotalNat, TotalEmpty

LEMMA RestNat ==
    ASSUME NEW q \in CopyReqRow
    PROVE  Rest(q) \in Nat /\ Held(q) \in Nat /\ Bytes(q.files) \in Nat /\ Bytes(q.batch) \in Nat
<1>1. q.files \in SUBSET Sources /\ q.folders \in SUBSET SourceFolders /\ q.batch \in SUBSET Sources /\ q.release \in Nat
  BY DEF CopyReqRow
<1>2. Bytes(q.files) \in Nat /\ Bytes(q.batch) \in Nat /\ Total(FolderBytes, q.folders) \in Nat
  BY <1>1, BytesNat, FolderBytesNat
<1> QED
  BY <1>1, <1>2 DEF Rest, Held

LEMMA OwedIs ==
    ASSUME NEW q \in CopyReqRow, Balanced(q)
    PROVE  /\ Owed(q) \in Nat
           /\ q.pc \notin {"idle", "reserve", "refused"} => Owed(q) = Rest(q) + Held(q)
<1>1. Rest(q) \in Nat /\ Held(q) \in Nat /\ q.total \in Nat /\ q.actual \in Nat /\ q.released \in Nat
  BY RestNat DEF CopyReqRow
<1>2. CASE q.pc \in {"idle", "reserve", "refused"}
  BY <1>2 DEF Owed
<1>3. CASE q.pc \notin {"idle", "reserve", "refused"}
  <2>1. q.total = q.actual + q.released + Rest(q) + Held(q)
    BY <1>3 DEF Balanced
  <2> DEFINE a == Rest(q)
             b == Held(q)
  <2>2. a \in Nat /\ b \in Nat /\ q.total = q.actual + q.released + a + b
    BY <1>1, <2>1
  <2>3. Owed(q) = q.total - q.actual - q.released
    BY <1>3 DEF Owed
  <2> HIDE DEF a, b
  <2>4. Owed(q) \in Nat /\ Owed(q) = a + b
    BY <1>1, <2>2, <2>3
  <2> QED
    BY <2>4 DEF a, b
<1> QED
  BY <1>2, <1>3

\* One request moves: the sum moves by what it owes.
LEMMA OwedMoves ==
    ASSUME NEW f \in [CopyRequests -> Nat], NEW g \in [CopyRequests -> Nat], NEW c \in CopyRequests,
           \A d \in CopyRequests \ {c} : g[d] = f[d]
    PROVE  /\ Total(f, CopyRequests) \in Nat /\ Total(f, CopyRequests) >= f[c]
           /\ Total(g, CopyRequests) = Total(f, CopyRequests) - f[c] + g[c]
<1> DEFINE R == CopyRequests \ {c}
<1>1. IsFiniteSet(CopyRequests) /\ R \in SUBSET CopyRequests /\ IsFiniteSet(R)
  BY CopyAssumption, FS_Subset
<1>2. Total(f, CopyRequests) = f[c] + Total(f, R) /\ Total(g, CopyRequests) = g[c] + Total(g, R)
  BY <1>1, TotalRemove, CopyRequests \in SUBSET CopyRequests
<1>3. Total(g, R) = Total(f, R)
  BY <1>1, TotalSame
<1>4. Total(f, R) \in Nat /\ f[c] \in Nat /\ g[c] \in Nat
  BY <1>1, TotalNat
<1> QED
  BY <1>2, <1>3, <1>4

-----------------------------------------------------------------------------
(* The step of one request.                                                *)

LEMMA RequestMoves ==
    ASSUME CopyInv, NEW c \in CopyRequests, NEW q, creq' = [creq EXCEPT ![c] = q],
           CopyReqSound(c, q, copied'), \A x \in copied' : x.by # c => x \in copied,
           space'.reserved = space.reserved - Owed(creq[c]) + Owed(q)
    PROVE  /\ creq' \in [CopyRequests -> CopyReqRow] /\ ReservedOwed'
           /\ \A d \in CopyRequests : CopyReqSound(d, creq'[d], copied')
<1> DEFINE f == [d \in CopyRequests |-> Owed(creq[d])]
           g == [d \in CopyRequests |-> Owed(creq'[d])]
<1>1. /\ creq \in [CopyRequests -> CopyReqRow] /\ space.reserved = Total(f, CopyRequests)
      /\ \A d \in CopyRequests : CopyReqSound(d, creq[d], copied)
  BY DEF CopyInv, CopyRows, ReservedOwed
<1>2. q \in CopyReqRow /\ Balanced(q)
  BY DEF CopyReqSound
<1>3. creq' \in [CopyRequests -> CopyReqRow] /\ creq'[c] = q /\ \A d \in CopyRequests \ {c} : creq'[d] = creq[d]
  BY <1>1, <1>2
<1>4. \A d \in CopyRequests : Owed(creq[d]) \in Nat /\ Owed(creq'[d]) \in Nat
  <2> SUFFICES ASSUME NEW d \in CopyRequests
               PROVE  Owed(creq[d]) \in Nat /\ Owed(creq'[d]) \in Nat
    OBVIOUS
  <2>1. creq[d] \in CopyReqRow /\ Balanced(creq[d])
    BY <1>1 DEF CopyReqSound
  <2> QED
    BY <2>1, <1>2, <1>3, OwedIs
<1>5. f \in [CopyRequests -> Nat] /\ g \in [CopyRequests -> Nat] /\ f[c] = Owed(creq[c]) /\ g[c] = Owed(q)
  BY <1>3, <1>4
<1>6. \A d \in CopyRequests \ {c} : g[d] = f[d]
  BY <1>3
<1>7. space'.reserved = Total(g, CopyRequests)
  <2> HIDE DEF f, g
  <2>1. Total(g, CopyRequests) = Total(f, CopyRequests) - f[c] + g[c]
    BY <1>5, <1>6, OwedMoves
  <2> QED
    BY <2>1, <1>1, <1>5
<1>8. ReservedOwed'
  BY <1>7 DEF ReservedOwed
<1>9. \A d \in CopyRequests \ {c} : CopyReqSound(d, creq[d], copied')
  BY <1>1 DEF CopyReqSound, NotYetCopied
<1> QED
  BY <1>3, <1>8, <1>9

\* A step that touches no row: the bytes only move within the request.
LEMMA QuietStep ==
    ASSUME CopyInv, NEW c \in CopyRequests, NEW q, creq' = [creq EXCEPT ![c] = q],
           CopyReqSound(c, q, copied), Owed(q) = Owed(creq[c]), UNCHANGED <<space, alive, ref, copied, grant>>
    PROVE  CopyInv'
<1>1. /\ creq[c] \in CopyReqRow /\ Balanced(creq[c]) /\ space.reserved \in Nat
  BY DEF CopyInv, CopyReqSound, CopyRows, QuotaRow
<1>2. Owed(creq[c]) \in Nat
  BY <1>1, OwedIs
<1>3. space'.reserved = space.reserved - Owed(creq[c]) + Owed(q)
  BY <1>1, <1>2
<1>4. CopyReqSound(c, q, copied') /\ \A x \in copied' : x.by # c => x \in copied
  OBVIOUS
<1>5. /\ creq' \in [CopyRequests -> CopyReqRow] /\ ReservedOwed'
      /\ \A d \in CopyRequests : CopyReqSound(d, creq'[d], copied')
  BY <1>3, <1>4, RequestMoves
<1>6. CopyRows'
  BY <1>5 DEF CopyInv, CopyRows
<1>7. CopyUsedExact' /\ CopyContentKept' /\ CopiedOnce'
  BY DEF CopyInv, CopyUsedExact, CopyContentKept, CopiedOnce
<1> QED
  BY <1>5, <1>6, <1>7 DEF CopyInv

-----------------------------------------------------------------------------
(* The plan.                                                               *)

LEMMA IdleCopyRow == IdleCopy \in CopyReqRow
BY DEF IdleCopy, CopyReqRow, CopySteps

LEMMA RequestKnown ==
    ASSUME CopyInv, NEW c \in CopyRequests
    PROVE  /\ creq[c] \in CopyReqRow /\ Balanced(creq[c]) /\ PlannedOnce(creq[c])
           /\ NotYetCopied(c, creq[c], copied) /\ Owed(creq[c]) \in Nat
<1>1. creq[c] \in CopyReqRow /\ Balanced(creq[c]) /\ PlannedOnce(creq[c]) /\ NotYetCopied(c, creq[c], copied)
  BY DEF CopyInv, CopyReqSound
<1> QED
  BY <1>1, OwedIs

LEMMA CopyPlanKeeps ==
    ASSUME CopyInv, NEW c \in CopyRequests, CopyPlan(c)
    PROVE  CopyInv'
<1> DEFINE ds == {d \in TopFolders(Asked[c].folders) : InFolder[d] \subseteq alive}
           fs == (Asked[c].files \ CoveredFiles(ds)) \cap alive
<1>1. PICK read \in {fs, {}} :
          creq' = [creq EXCEPT ![c] = [IdleCopy EXCEPT !.pc = "reserve", !.files = read, !.folders = ds,
                                          !.total = Bytes(read) + Total(FolderBytes, ds)]]
  BY DEF CopyPlan, Becomes_
<1> DEFINE q == [IdleCopy EXCEPT !.pc = "reserve", !.files = read, !.folders = ds,
                                 !.total = Bytes(read) + Total(FolderBytes, ds)]
<1>2. creq[c].pc = "idle" /\ UNCHANGED <<space, alive, ref, copied, grant>>
  BY DEF CopyPlan, Pc
<1>3. Asked[c].files \subseteq Sources /\ Asked[c].folders \subseteq SourceFolders
  BY CopyAssumption
<1>4. ds \in SUBSET SourceFolders /\ read \in SUBSET Sources /\ read \cap CoveredFiles(ds) = {}
  BY <1>1, <1>3 DEF TopFolders
<1>5. \A d, e \in ds : d # e => InFolder[d] \cap InFolder[e] = {}
  BY <1>3, SubtreeAssumption DEF TopFolders
<1> HIDE DEF ds, fs
<1> DEFINE sum == Bytes(read) + Total(FolderBytes, ds)
<1>6. Bytes(read) \in Nat /\ Total(FolderBytes, ds) \in Nat
  BY <1>4, BytesNat, FolderBytesNat
<1>7. sum \in Nat /\ "reserve" \in CopySteps
  BY <1>6 DEF CopySteps
<1>8. q = [IdleCopy EXCEPT !.pc = "reserve", !.files = read, !.folders = ds, !.total = sum]
  OBVIOUS
<1> HIDE DEF sum, q
<1>9. /\ q \in CopyReqRow /\ q.pc = "reserve" /\ q.files = read /\ q.folders = ds /\ q.total = sum
      /\ q.actual = 0 /\ q.released = 0
  <2>1. IdleCopy \in CopyReqRow /\ IdleCopy.actual = 0 /\ IdleCopy.released = 0
    BY IdleCopyRow DEF IdleCopy
  <2> HIDE DEF IdleCopy
  <2> QED
    BY <2>1, <1>4, <1>7, <1>8 DEF CopyReqRow
<1>10. Balanced(q)
  <2>1. Rest(q) = sum /\ Held(q) = 0
    BY <1>9 DEF Rest, Held, sum
  <2>2. sum = 0 + 0 + sum + 0
    BY <1>7
  <2> QED
    BY <1>9, <2>1, <2>2 DEF Balanced
<1>11. PlannedOnce(q)
  BY <1>4, <1>5, <1>9 DEF PlannedOnce, InHand
<1>12. NotYetCopied(c, q, copied)
  BY <1>2, RequestKnown DEF NotYetCopied
<1>13. Owed(q) = Owed(creq[c])
  BY <1>2, <1>9 DEF Owed
<1> QED
  BY <1>1, <1>2, <1>9, <1>10, <1>11, <1>12, <1>13, QuietStep DEF CopyReqSound, q, sum

LEMMA CopyRefusedKeeps ==
    ASSUME CopyInv, NEW c \in CopyRequests, CopyTargetMissing(c) \/ CopyNotReserved(c)
    PROVE  CopyInv'
<1>0. /\ creq[c] \in CopyReqRow /\ Balanced(creq[c]) /\ PlannedOnce(creq[c]) /\ NotYetCopied(c, creq[c], copied)
      /\ "refused" \in CopySteps
  BY RequestKnown DEF CopySteps
<1>1. CASE CopyTargetMissing(c)
  <2> DEFINE q == [IdleCopy EXCEPT !.pc = "refused"]
  <2>1. creq' = [creq EXCEPT ![c] = q] /\ UNCHANGED <<space, alive, ref, copied, grant>> /\ creq[c].pc = "idle"
    BY <1>1 DEF CopyTargetMissing, Becomes_, Pc
  <2>2. /\ q \in CopyReqRow /\ q.pc = "refused" /\ q.files = {} /\ q.folders = {} /\ q.actual = 0 /\ q.released = 0
    BY IdleCopyRow, <1>0 DEF IdleCopy, CopyReqRow
  <2> HIDE DEF q
  <2>3. Balanced(q) /\ PlannedOnce(q) /\ Owed(q) = Owed(creq[c])
    BY <2>1, <2>2 DEF Balanced, PlannedOnce, InHand, CoveredFiles, Owed
  <2>4. NotYetCopied(c, q, copied)
    BY <1>0, <2>1 DEF NotYetCopied
  <2> QED
    BY <2>1, <2>2, <2>3, <2>4, QuietStep DEF CopyReqSound
<1>2. CASE CopyNotReserved(c)
  <2> DEFINE q == [creq[c] EXCEPT !.pc = "refused", !.total = 0]
  <2>1. creq' = [creq EXCEPT ![c] = q] /\ UNCHANGED <<space, alive, ref, copied, grant>> /\ creq[c].pc = "reserve"
    BY <1>2 DEF CopyNotReserved, Becomes_, Pc
  <2>2. /\ q \in CopyReqRow /\ q.pc = "refused" /\ q.files = creq[c].files /\ q.folders = creq[c].folders
        /\ q.actual = creq[c].actual /\ q.released = creq[c].released
    BY <1>0 DEF CopyReqRow
  <2> HIDE DEF q
  <2>3. Balanced(q) /\ PlannedOnce(q) /\ Owed(q) = Owed(creq[c])
    BY <1>0, <2>1, <2>2 DEF Balanced, PlannedOnce, InHand, Owed
  <2>4. NotYetCopied(c, q, copied)
    BY <1>0, <2>1, <2>2 DEF NotYetCopied, InHand
  <2> QED
    BY <2>1, <2>2, <2>3, <2>4, QuietStep DEF CopyReqSound
<1> QED
  BY <1>1, <1>2

\* What a later step keeps of the plan: it takes the batch b out or leaves it as it is.
LEMMA PlanShrinks ==
    ASSUME NEW c, NEW o, NEW q, NEW cs, PlannedOnce(o), NotYetCopied(c, o, cs), o.pc # "idle", q.pc # "idle",
           q.files \subseteq o.files, q.folders \subseteq o.folders,
           InHand(q) \subseteq InHand(o) \cup (o.files \ q.files) \cup (CoveredFiles(o.folders) \ CoveredFiles(q.folders)),
           CoveredFiles(q.folders) \subseteq CoveredFiles(o.folders)
    PROVE  PlannedOnce(q) /\ NotYetCopied(c, q, cs)
<1>1. PlannedOnce(q)
  <2>1. q.files \cap CoveredFiles(q.folders) = {}
    BY DEF PlannedOnce
  <2>2. \A d, e \in q.folders : d # e => InFolder[d] \cap InFolder[e] = {}
    BY DEF PlannedOnce
  <2>3. InHand(q) \cap (q.files \cup CoveredFiles(q.folders)) = {}
    <3> DEFINE a == CoveredFiles(o.folders)
               b == CoveredFiles(q.folders)
               h == InHand(o)
               k == InHand(q)
    <3>1. /\ o.files \cap a = {} /\ h \cap (o.files \cup a) = {} /\ b \subseteq a /\ q.files \subseteq o.files
          /\ k \subseteq h \cup (o.files \ q.files) \cup (a \ b)
      BY DEF PlannedOnce
    <3> HIDE DEF a, b, h, k
    <3>2. k \cap (q.files \cup b) = {}
      BY <3>1
    <3> QED
      BY <3>2 DEF a, b, h, k
  <2> QED
    BY <2>1, <2>2, <2>3 DEF PlannedOnce
<1>2. NotYetCopied(c, q, cs)
  <2>1. q.files \cup CoveredFiles(q.folders) \cup InHand(q) \subseteq o.files \cup CoveredFiles(o.folders) \cup InHand(o)
    OBVIOUS
  <2> QED
    BY <2>1 DEF NotYetCopied
<1> QED
  BY <1>1, <1>2

\* A running request that settles nothing: the bytes go from the plan to its hand.
Running(q) == q.pc \notin {"idle", "reserve", "refused"}
StepNamed(q) ==
    /\ q.pc = "answered" => q.files = {} /\ q.folders = {}
    /\ q.pc = "filesTx" => q.valid \subseteq q.batch
    /\ q.pc = "release" => q.next = "loop"
ShrinksTo(o, q) ==
    /\ q.files \subseteq o.files /\ q.folders \subseteq o.folders
    /\ CoveredFiles(q.folders) \subseteq CoveredFiles(o.folders)
    /\ InHand(q) \subseteq InHand(o) \cup (o.files \ q.files) \cup (CoveredFiles(o.folders) \ CoveredFiles(q.folders))

LEMMA InPlanStep ==
    ASSUME CopyInv, NEW c \in CopyRequests, NEW q \in CopyReqRow, creq' = [creq EXCEPT ![c] = q],
           UNCHANGED <<space, alive, ref, copied, grant>>,
           Running(creq[c]), Running(q), StepNamed(q), ShrinksTo(creq[c], q),
           q.total = creq[c].total, q.actual = creq[c].actual, q.released = creq[c].released,
           Rest(q) + Held(q) = Rest(creq[c]) + Held(creq[c])
    PROVE  CopyInv'
<1> DEFINE o == creq[c]
<1>1. o \in CopyReqRow /\ Balanced(o) /\ PlannedOnce(o) /\ NotYetCopied(c, o, copied)
  BY RequestKnown
<1>2. o.pc # "idle" /\ q.pc # "idle" /\ o.pc # "refused"
  BY DEF Running
<1>3. PlannedOnce(q) /\ NotYetCopied(c, q, copied)
  <2> HIDE DEF o
  <2>1. ShrinksTo(o, q)
    BY DEF o
  <2> QED
    BY <1>1, <1>2, <2>1, PlanShrinks DEF ShrinksTo
<1>4. Balanced(q)
  <2> DEFINE a == Rest(o)
             b == Held(o)
             d == Rest(q)
             e == Held(q)
  <2>1. a \in Nat /\ b \in Nat /\ d \in Nat /\ e \in Nat /\ d + e = a + b
    BY <1>1, RestNat
  <2>2. o.total = o.actual + o.released + a + b /\ o.actual \in Nat /\ o.released \in Nat
    BY <1>1, <1>2 DEF Balanced, CopyReqRow
  <2> HIDE DEF a, b, d, e
  <2>3. o.total = o.actual + o.released + d + e
    <3>1. \A x, y \in Nat : x + y + a + b = x + y + d + e
      BY <2>1
    <3> QED
      BY <2>2, <3>1
  <2> QED
    BY <2>3 DEF Balanced, Running, StepNamed, d, e
<1>5. Owed(q) = Owed(o)
  BY DEF Owed, Running
<1> QED
  BY <1>3, <1>4, <1>5, QuietStep DEF CopyReqSound

LEMMA CopyFilesQueryKeeps ==
    ASSUME CopyInv, NEW c \in CopyRequests, CopyFilesQuery(c)
    PROVE  CopyInv'
<1> DEFINE o == creq[c]
<1>1. o \in CopyReqRow /\ Balanced(o) /\ o.pc = "loop" /\ UNCHANGED <<space, alive, ref, copied, grant>>
  BY RequestKnown DEF CopyFilesQuery, Pc
<1>2. PICK b \in SUBSET o.files :
          LET q == [o EXCEPT !.files = @ \ b, !.batch = b]
              free == {f \in b : f \notin target.names /\ ref[ContentOf[f]] >= 0}
          IN \/ Becomes_(c, Releasing(q, Bytes(b), "loop"))
             \/ free # {} /\ Becomes_(c, [q EXCEPT !.pc = "filesTx", !.valid = free])
  BY DEF CopyFilesQuery
<1> DEFINE free == {f \in b : f \notin target.names /\ ref[ContentOf[f]] >= 0}
           m == [o EXCEPT !.files = @ \ b, !.batch = b]
<1>3. o.files \in SUBSET Sources /\ b \in SUBSET Sources /\ free \in SUBSET b
  BY <1>1 DEF CopyReqRow
<1>4. Bytes(b) \in Nat /\ Bytes(o.files) = Bytes(b) + Bytes(o.files \ b) /\ Bytes(o.files \ b) \in Nat
  BY <1>3, BytesNat, BytesSplit
<1>5. /\ m \in CopyReqRow /\ m.files = o.files \ b /\ m.folders = o.folders /\ m.batch = b /\ m.total = o.total
      /\ m.actual = o.actual /\ m.released = o.released
  BY <1>1, <1>3 DEF CopyReqRow
<1> HIDE DEF m, free
<1>6. ASSUME NEW q \in CopyReqRow, q.files = m.files, q.folders = m.folders, q.batch = m.batch, q.total = m.total,
             q.actual = m.actual, q.released = m.released, q.pc \in {"release", "filesTx"}, StepNamed(q),
             q.pc = "release" => q.release = Bytes(b), creq' = [creq EXCEPT ![c] = q]
      PROVE  CopyInv'
  <2>1. Running(o) /\ Running(q)
    BY <1>1, <1>6 DEF Running
  <2>2. ShrinksTo(o, q)
    BY <1>2, <1>5, <1>6 DEF ShrinksTo, InHand
  <2>3. Held(o) = 0 /\ Held(q) = Bytes(b)
    BY <1>1, <1>5, <1>6 DEF Held
  <2>4. Total(FolderBytes, o.folders) \in Nat
    BY <1>1, FolderBytesNat DEF CopyReqRow
  <2>5. Rest(q) + Held(q) = Rest(o) + Held(o)
    BY <1>4, <1>5, <1>6, <2>3, <2>4 DEF Rest
  <2> QED
    BY <1>1, <1>5, <1>6, <2>1, <2>2, <2>5, InPlanStep
<1>7. CASE Becomes_(c, Releasing(m, Bytes(b), "loop"))
  <2> DEFINE q == [m EXCEPT !.pc = "release", !.release = Bytes(b), !.next = "loop"]
  <2>1. creq' = [creq EXCEPT ![c] = q]
    BY <1>7 DEF Becomes_, Releasing
  <2>2. /\ q \in CopyReqRow /\ q.files = m.files /\ q.folders = m.folders /\ q.batch = m.batch /\ q.total = m.total
        /\ q.actual = m.actual /\ q.released = m.released /\ q.pc = "release" /\ q.release = Bytes(b) /\ q.next = "loop"
    BY <1>4, <1>5 DEF CopyReqRow, CopySteps
  <2> HIDE DEF q
  <2>3. StepNamed(q)
    BY <2>2 DEF StepNamed
  <2> QED
    BY <1>6, <2>1, <2>2, <2>3
<1>8. CASE Becomes_(c, [m EXCEPT !.pc = "filesTx", !.valid = free])
  <2> DEFINE q == [m EXCEPT !.pc = "filesTx", !.valid = free]
  <2>1. creq' = [creq EXCEPT ![c] = q]
    BY <1>8 DEF Becomes_
  <2>2. /\ q \in CopyReqRow /\ q.files = m.files /\ q.folders = m.folders /\ q.batch = m.batch /\ q.total = m.total
        /\ q.actual = m.actual /\ q.released = m.released /\ q.pc = "filesTx" /\ q.valid = free
    BY <1>3, <1>5 DEF CopyReqRow, CopySteps
  <2> HIDE DEF q
  <2>3. StepNamed(q)
    BY <1>3, <1>5, <2>2 DEF StepNamed
  <2> QED
    BY <1>6, <2>1, <2>2, <2>3
<1> QED
  BY <1>2, <1>7, <1>8 DEF m, free

LEMMA CopyFolderQueryKeeps ==
    ASSUME CopyInv, NEW c \in CopyRequests, CopyFolderQuery(c)
    PROVE  CopyInv'
<1> DEFINE o == creq[c]
<1>1. /\ o \in CopyReqRow /\ Balanced(o) /\ PlannedOnce(o) /\ o.pc = "loop"
      /\ UNCHANGED <<space, alive, ref, copied, grant>>
  BY RequestKnown DEF CopyFolderQuery, Pc
<1>2. PICK d \in o.folders :
          LET q == [o EXCEPT !.folders = @ \ {d}, !.folder = {d}, !.batch = InFolder[d]]
          IN \/ Becomes_(c, Releasing(q, Bytes(InFolder[d]), "loop"))
             \/ Becomes_(c, [q EXCEPT !.pc = "folderTx"])
  BY DEF CopyFolderQuery
<1> DEFINE m == [o EXCEPT !.folders = @ \ {d}, !.folder = {d}, !.batch = InFolder[d]]
           b == InFolder[d]
           rest == o.folders \ {d}
<1>3. o.folders \in SUBSET SourceFolders /\ d \in SourceFolders /\ b \in SUBSET Sources /\ rest \in SUBSET SourceFolders
  BY <1>1, CopyAssumption DEF CopyReqRow
<1>4. /\ Bytes(b) \in Nat /\ Total(FolderBytes, rest) \in Nat
      /\ Total(FolderBytes, o.folders) = Bytes(b) + Total(FolderBytes, rest)
  <2>1. FolderBytes[d] = Bytes(b)
    BY <1>3 DEF FolderBytes
  <2>2. Total(FolderBytes, o.folders) = FolderBytes[d] + Total(FolderBytes, rest)
    BY <1>2, <1>3, FolderBytesNat, TotalRemove
  <2> QED
    BY <2>1, <2>2, <1>3, BytesNat, FolderBytesNat
<1>5. /\ m \in CopyReqRow /\ m.files = o.files /\ m.folders = rest /\ m.batch = b /\ m.total = o.total
      /\ m.actual = o.actual /\ m.released = o.released
  BY <1>1, <1>3 DEF CopyReqRow
<1>6. CoveredFiles(rest) \subseteq CoveredFiles(o.folders) /\ b \subseteq CoveredFiles(o.folders) \ CoveredFiles(rest)
  BY <1>1, <1>2 DEF CoveredFiles, PlannedOnce
<1> HIDE DEF m, b, rest
<1>7. ASSUME NEW q \in CopyReqRow, q.files = m.files, q.folders = m.folders, q.batch = m.batch, q.total = m.total,
             q.actual = m.actual, q.released = m.released, q.pc \in {"release", "folderTx"}, StepNamed(q),
             q.pc = "release" => q.release = Bytes(b), creq' = [creq EXCEPT ![c] = q]
      PROVE  CopyInv'
  <2>1. Running(o) /\ Running(q)
    BY <1>1, <1>7 DEF Running
  <2>2. ShrinksTo(o, q)
    <3>1. InHand(q) \subseteq b
      BY <1>5, <1>7 DEF InHand
    <3>2. rest \subseteq o.folders
      BY DEF rest
    <3> QED
      BY <1>5, <1>6, <1>7, <3>1, <3>2 DEF ShrinksTo
  <2>3. Held(o) = 0 /\ Held(q) = Bytes(b)
    BY <1>1, <1>5, <1>7 DEF Held
  <2>4. Bytes(o.files) \in Nat
    BY <1>1, BytesNat DEF CopyReqRow
  <2>5. Rest(q) + Held(q) = Rest(o) + Held(o)
    BY <1>4, <1>5, <1>7, <2>3, <2>4 DEF Rest
  <2> QED
    BY <1>1, <1>5, <1>7, <2>1, <2>2, <2>5, InPlanStep
<1>8. CASE Becomes_(c, Releasing(m, Bytes(b), "loop"))
  <2> DEFINE q == [m EXCEPT !.pc = "release", !.release = Bytes(b), !.next = "loop"]
  <2>1. creq' = [creq EXCEPT ![c] = q]
    BY <1>8 DEF Becomes_, Releasing
  <2>2. /\ q \in CopyReqRow /\ q.files = m.files /\ q.folders = m.folders /\ q.batch = m.batch /\ q.total = m.total
        /\ q.actual = m.actual /\ q.released = m.released /\ q.pc = "release" /\ q.release = Bytes(b) /\ q.next = "loop"
    BY <1>4, <1>5 DEF CopyReqRow, CopySteps
  <2> HIDE DEF q
  <2>3. StepNamed(q)
    BY <2>2 DEF StepNamed
  <2> QED
    BY <1>7, <2>1, <2>2, <2>3
<1>9. CASE Becomes_(c, [m EXCEPT !.pc = "folderTx"])
  <2> DEFINE q == [m EXCEPT !.pc = "folderTx"]
  <2>1. creq' = [creq EXCEPT ![c] = q]
    BY <1>9 DEF Becomes_
  <2>2. /\ q \in CopyReqRow /\ q.files = m.files /\ q.folders = m.folders /\ q.batch = m.batch /\ q.total = m.total
        /\ q.actual = m.actual /\ q.released = m.released /\ q.pc = "folderTx"
    BY <1>5 DEF CopyReqRow, CopySteps
  <2> HIDE DEF q
  <2>3. StepNamed(q)
    BY <2>2 DEF StepNamed
  <2> QED
    BY <1>7, <2>1, <2>2, <2>3
<1> QED
  BY <1>2, <1>8, <1>9 DEF m, b

\* The steps that leave the plan as it is.
LEMMA CopySettlesNothing ==
    ASSUME CopyInv, NEW c \in CopyRequests,
           CopyFilesTxFailed(c) \/ CopyFolderTxFailed(c) \/ CopyReleaseFailed(c) \/ CopyEnd(c)
    PROVE  CopyInv'
<1> DEFINE o == creq[c]
<1>1. o \in CopyReqRow /\ Balanced(o) /\ UNCHANGED <<space, alive, ref, copied, grant>> /\ Bytes(o.batch) \in Nat
  BY RequestKnown, RestNat DEF CopyFilesTxFailed, CopyFolderTxFailed, CopyReleaseFailed, CopyEnd
<1>2. ASSUME NEW q \in CopyReqRow, creq' = [creq EXCEPT ![c] = q], q.files = o.files, q.folders = o.folders,
             q.total = o.total, q.actual = o.actual, q.released = o.released, StepNamed(q), Running(o), Running(q),
             InHand(q) = {}, Held(q) = Held(o)
      PROVE  CopyInv'
  <2>1. ShrinksTo(o, q)
    BY <1>2 DEF ShrinksTo
  <2>2. Rest(q) + Held(q) = Rest(o) + Held(o)
    BY <1>2 DEF Rest
  <2> QED
    BY <1>1, <1>2, <2>1, <2>2, InPlanStep
<1>3. ASSUME o.pc \in {"filesTx", "folderTx"}, NEW m \in CopyReqRow, m.files = o.files, m.folders = o.folders,
             m.total = o.total, m.actual = o.actual, m.released = o.released,
             Becomes_(c, Releasing(m, Bytes(o.batch), "loop"))
      PROVE  CopyInv'
  <2> DEFINE q == [m EXCEPT !.pc = "release", !.release = Bytes(o.batch), !.next = "loop"]
  <2>1. creq' = [creq EXCEPT ![c] = q]
    BY <1>3 DEF Becomes_, Releasing
  <2>2. /\ q \in CopyReqRow /\ q.files = m.files /\ q.folders = m.folders /\ q.total = m.total /\ q.actual = m.actual
        /\ q.released = m.released /\ q.pc = "release" /\ q.release = Bytes(o.batch) /\ q.next = "loop"
    BY <1>1, <1>3 DEF CopyReqRow, CopySteps
  <2> HIDE DEF q
  <2>3. StepNamed(q) /\ Running(o) /\ Running(q) /\ InHand(q) = {} /\ Held(q) = Held(o)
    BY <1>3, <2>2 DEF StepNamed, Running, InHand, Held
  <2> QED
    BY <1>2, <1>3, <2>1, <2>2, <2>3
<1>4. CASE CopyFilesTxFailed(c)
  <2> DEFINE m == [o EXCEPT !.valid = {}]
  <2>1. /\ m \in CopyReqRow /\ m.files = o.files /\ m.folders = o.folders /\ m.total = o.total
        /\ m.actual = o.actual /\ m.released = o.released
    BY <1>1 DEF CopyReqRow
  <2>2. o.pc = "filesTx" /\ Becomes_(c, Releasing(m, Bytes(o.batch), "loop"))
    BY <1>4 DEF CopyFilesTxFailed, Pc
  <2> HIDE DEF m
  <2> QED
    BY <1>3, <2>1, <2>2
<1>5. CASE CopyFolderTxFailed(c)
  <2>1. o.pc = "folderTx" /\ Becomes_(c, Releasing(o, Bytes(o.batch), "loop"))
    BY <1>5 DEF CopyFolderTxFailed, Pc
  <2> QED
    BY <1>1, <1>3, <2>1
<1>6. CASE CopyReleaseFailed(c)
  <2> DEFINE q == [o EXCEPT !.pc = "leaked"]
  <2>1. creq' = [creq EXCEPT ![c] = q] /\ o.pc = "release"
    BY <1>6 DEF CopyReleaseFailed, Becomes_, Pc
  <2>2. /\ q \in CopyReqRow /\ q.files = o.files /\ q.folders = o.folders /\ q.total = o.total /\ q.actual = o.actual
        /\ q.released = o.released /\ q.pc = "leaked" /\ q.release = o.release
    BY <1>1 DEF CopyReqRow, CopySteps
  <2> HIDE DEF q
  <2>3. StepNamed(q) /\ Running(o) /\ Running(q) /\ InHand(q) = {} /\ Held(q) = Held(o)
    BY <2>1, <2>2 DEF StepNamed, Running, InHand, Held
  <2> QED
    BY <1>2, <2>1, <2>2, <2>3
<1>7. CASE CopyEnd(c)
  <2> DEFINE q == [o EXCEPT !.pc = "answered"]
  <2>1. creq' = [creq EXCEPT ![c] = q] /\ o.pc = "loop" /\ o.files = {} /\ o.folders = {}
    BY <1>7 DEF CopyEnd, Becomes_, Pc
  <2>2. /\ q \in CopyReqRow /\ q.files = o.files /\ q.folders = o.folders /\ q.total = o.total /\ q.actual = o.actual
        /\ q.released = o.released /\ q.pc = "answered"
    BY <1>1 DEF CopyReqRow, CopySteps
  <2> HIDE DEF q
  <2>3. StepNamed(q) /\ Running(o) /\ Running(q) /\ InHand(q) = {} /\ Held(q) = Held(o)
    BY <2>1, <2>2 DEF StepNamed, Running, InHand, Held
  <2> QED
    BY <1>2, <2>1, <2>2, <2>3
<1> QED
  BY <1>4, <1>5, <1>6, <1>7

-----------------------------------------------------------------------------
(* Reserving, and settling what is in hand.                                *)

\* Of the bytes in hand a are used and r are given back.
LEMMA SettledBalance ==
    ASSUME NEW o \in CopyReqRow, NEW q \in CopyReqRow, Balanced(o), Running(o), Running(q), StepNamed(q),
           NEW a \in Nat, NEW r \in Nat, q.total = o.total, Rest(q) = Rest(o),
           q.actual = o.actual + a, q.released = o.released + r, Held(o) = Held(q) + a + r
    PROVE  Balanced(q) /\ Owed(q) = Owed(o) - a - r /\ Owed(q) \in Nat /\ Owed(o) \in Nat
<1> DEFINE s == Rest(o)
           h == Held(q)
           oa == o.actual
           or == o.released
<1>1. s \in Nat /\ h \in Nat /\ oa \in Nat /\ or \in Nat /\ Rest(q) = s /\ Held(o) = h + a + r
  BY RestNat DEF CopyReqRow
<1>2. o.total = oa + or + s + (h + a + r)
  BY <1>1 DEF Balanced, Running
<1>3. q.actual = oa + a /\ q.released = or + r /\ q.total = o.total
  OBVIOUS
<1>4. Owed(o) = o.total - oa - or /\ Owed(q) = q.total - q.actual - q.released
  BY DEF Owed, Running
<1> HIDE DEF s, h, oa, or
<1>5. q.total = q.actual + q.released + s + h
  BY <1>1, <1>2, <1>3
<1>6. Owed(q) = Owed(o) - a - r
  BY <1>1, <1>2, <1>3, <1>4
<1>7. Balanced(q)
  BY <1>1, <1>5 DEF Balanced, Running, StepNamed, h
<1> QED
  BY <1>6, <1>7, OwedIs

\* A step on the quota row that neither copies nor deletes.
LEMMA ReservationStep ==
    ASSUME CopyInv, NEW c \in CopyRequests, NEW q, creq' = [creq EXCEPT ![c] = q],
           CopyReqSound(c, q, copied), UNCHANGED <<alive, ref, copied, grant>>, space' \in QuotaRow,
           space'.used = space.used, space'.reserved = space.reserved - Owed(creq[c]) + Owed(q)
    PROVE  CopyInv'
<1>4. CopyReqSound(c, q, copied') /\ \A x \in copied' : x.by # c => x \in copied
  OBVIOUS
<1>5. /\ creq' \in [CopyRequests -> CopyReqRow] /\ ReservedOwed'
      /\ \A d \in CopyRequests : CopyReqSound(d, creq'[d], copied')
  BY <1>4, RequestMoves
<1>6. CopyRows'
  BY <1>5 DEF CopyInv, CopyRows
<1>7. CopyUsedExact' /\ CopyContentKept' /\ CopiedOnce'
  BY DEF CopyInv, CopyUsedExact, CopyContentKept, CopiedOnce
<1> QED
  BY <1>5, <1>6, <1>7 DEF CopyInv

LEMMA CopyReserveKeeps ==
    ASSUME CopyInv, NEW c \in CopyRequests, CopyReserve(c)
    PROVE  CopyInv'
<1> DEFINE o == creq[c]
           q == [o EXCEPT !.pc = "loop"]
<1>1. /\ o \in CopyReqRow /\ Balanced(o) /\ PlannedOnce(o) /\ NotYetCopied(c, o, copied)
      /\ o.pc = "reserve" /\ creq' = [creq EXCEPT ![c] = q] /\ UNCHANGED <<alive, ref, copied, grant>>
      /\ space' = [space EXCEPT !.reserved = @ + o.total] /\ space \in QuotaRow /\ o.total \in Nat
  <2>1. o \in CopyReqRow /\ Balanced(o) /\ PlannedOnce(o) /\ NotYetCopied(c, o, copied)
    BY RequestKnown
  <2>2. o.total \in Nat /\ space \in QuotaRow
    BY <2>1 DEF CopyReqRow, CopyInv, CopyRows
  <2> QED
    BY <2>1, <2>2 DEF CopyReserve, Becomes_, Pc, ReserveStorage
<1>2. /\ q \in CopyReqRow /\ q.pc = "loop" /\ q.files = o.files /\ q.folders = o.folders /\ q.total = o.total
      /\ q.actual = o.actual /\ q.released = o.released
  BY <1>1 DEF CopyReqRow, CopySteps
<1> HIDE DEF q
<1>3. o.actual = 0 /\ o.released = 0 /\ Held(o) = 0 /\ Held(q) = 0 /\ Rest(q) = Rest(o)
  BY <1>1, <1>2 DEF Balanced, Held, Rest
<1>4. Balanced(q)
  BY <1>1, <1>2, <1>3 DEF Balanced
<1>5. PlannedOnce(q) /\ NotYetCopied(c, q, copied)
  BY <1>1, <1>2, PlanShrinks DEF InHand
<1>6. Owed(o) = 0 /\ Owed(q) = o.total
  BY <1>1, <1>2, <1>3 DEF Owed
<1>7. space' \in QuotaRow /\ space'.used = space.used /\ space'.reserved = space.reserved + o.total
  <2>1. space.reserved + o.total \in Nat
    BY <1>1 DEF QuotaRow
  <2> QED
    BY <1>1, <2>1 DEF QuotaRow
<1>8. space'.reserved = space.reserved - Owed(o) + Owed(q)
  <2>1. space.reserved \in Nat
    BY <1>1 DEF QuotaRow
  <2> QED
    BY <1>1, <1>6, <1>7, <2>1
<1> QED
  BY <1>1, <1>2, <1>4, <1>5, <1>7, <1>8, ReservationStep DEF CopyReqSound

\* The quota row after a release.
LEMMA ReleasedRow ==
    ASSUME NEW s \in QuotaRow, NEW b \in Nat, HasReserved(s, b)
    PROVE  LET r == ReleaseReservedStorage(s, b)
           IN r \in QuotaRow /\ r.used = s.used /\ r.quota = s.quota /\ r.reserved = s.reserved - b
<1>1. s.reserved \in Nat /\ s.reserved - b \in Nat
  BY DEF QuotaRow, HasReserved
<1> QED
  BY <1>1 DEF QuotaRow, ReleaseReservedStorage

\* What a request has in hand is given back, and it goes on with its plan.
LEMMA GivenBack ==
    ASSUME CopyInv, NEW c \in CopyRequests, NEW q \in CopyReqRow, NEW b \in Nat, HasReserved(space, b),
           creq' = [creq EXCEPT ![c] = q], space' = ReleaseReservedStorage(space, b),
           UNCHANGED <<alive, ref, copied, grant>>, Running(creq[c]), Held(creq[c]) = b,
           q.pc = "loop", q.files = creq[c].files, q.folders = creq[c].folders,
           q.total = creq[c].total, q.actual = creq[c].actual, q.released = creq[c].released + b
    PROVE  CopyInv'
<1> DEFINE o == creq[c]
<1>1. o \in CopyReqRow /\ Balanced(o) /\ PlannedOnce(o) /\ NotYetCopied(c, o, copied) /\ space \in QuotaRow
  BY RequestKnown DEF CopyInv, CopyRows
<1>2. Running(q) /\ StepNamed(q) /\ Held(q) = 0 /\ InHand(q) = {} /\ Rest(q) = Rest(o) /\ o.pc # "idle"
  BY DEF Running, StepNamed, Held, InHand, Rest
<1>3. q.actual = o.actual + 0 /\ Held(o) = Held(q) + 0 + b
  BY <1>1, <1>2 DEF CopyReqRow
<1>4. Balanced(q) /\ Owed(q) = Owed(o) - 0 - b /\ Owed(q) \in Nat /\ Owed(o) \in Nat
  BY <1>1, <1>2, <1>3, SettledBalance
<1>5. PlannedOnce(q) /\ NotYetCopied(c, q, copied)
  BY <1>1, <1>2, PlanShrinks
<1>6. space' \in QuotaRow /\ space'.used = space.used /\ space'.reserved = space.reserved - b
  BY <1>1, ReleasedRow
<1>7. space'.reserved = space.reserved - Owed(o) + Owed(q)
  <2>1. space.reserved \in Nat
    BY <1>1 DEF QuotaRow
  <2> QED
    BY <1>4, <1>6, <2>1
<1> QED
  BY <1>4, <1>5, <1>6, <1>7, ReservationStep DEF CopyReqSound

LEMMA CopyReleaseKeeps ==
    ASSUME CopyInv, NEW c \in CopyRequests, CopyRelease(c)
    PROVE  CopyInv'
<1> DEFINE o == creq[c]
           q == [o EXCEPT !.pc = o.next, !.released = @ + o.release, !.release = 0, !.batch = {}, !.folder = {}]
<1>1. /\ o \in CopyReqRow /\ Balanced(o) /\ o.pc = "release" /\ creq' = [creq EXCEPT ![c] = q]
      /\ HasReserved(space, o.release) /\ space' = ReleaseReservedStorage(space, o.release)
      /\ UNCHANGED <<alive, ref, copied, grant>>
  BY RequestKnown DEF CopyRelease, Becomes_, Pc
<1>2. o.release \in Nat /\ o.next = "loop" /\ o.released + o.release \in Nat
  BY <1>1 DEF CopyReqRow, Balanced
<1>3. /\ q \in CopyReqRow /\ q.pc = "loop" /\ q.files = o.files /\ q.folders = o.folders /\ q.total = o.total
      /\ q.actual = o.actual /\ q.released = o.released + o.release
  BY <1>1, <1>2 DEF CopyReqRow, CopySteps
<1> HIDE DEF q
<1>4. Running(o) /\ Held(o) = o.release
  BY <1>1 DEF Running, Held
<1> QED
  BY <1>1, <1>2, <1>3, <1>4, GivenBack

-----------------------------------------------------------------------------
(* Copies are made.                                                        *)

CopiesOf(T, c, b) == {[of |-> f, by |-> c, below |-> b] : f \in T}

\* The copies of some files are as many and as large as the files.
LEMMA CopiesMeasured ==
    ASSUME NEW c \in CopyRequests, NEW b \in SUBSET SourceFolders, NEW T \in SUBSET Sources
    PROVE  /\ CopiesOf(T, c, b) \in SUBSET CopyRow /\ IsFiniteSet(CopiesOf(T, c, b))
           /\ Total(CopySize, CopiesOf(T, c, b)) = Bytes(T)
           /\ Cardinality(CopiesOf(T, c, b)) = Cardinality(T)
<1> DEFINE M(U) == CopiesOf(U, c, b)
           P == {U \in SUBSET Sources : /\ IsFiniteSet(M(U)) /\ Total(CopySize, M(U)) = Bytes(U)
                                        /\ Cardinality(M(U)) = Cardinality(U)}
<1>0. CopySize \in [CopyRow -> Nat] /\ \A U \in SUBSET Sources : M(U) \in SUBSET CopyRow
  <2>1. \A x \in CopyRow : SizeOf[x.of] \in Nat
    BY CopyAssumption DEF CopyRow
  <2> QED
    BY <2>1 DEF CopySize, CopiesOf, CopyRow
<1>1. {} \in P
  <2>1. M({}) = {}
    BY DEF CopiesOf
  <2> QED
    BY <2>1, <1>0, FS_EmptySet, TotalEmpty, BytesEmpty
<1>2. \A U \in SUBSET Sources, x \in Sources : U \in P /\ x \notin U => U \cup {x} \in P
  <2> SUFFICES ASSUME NEW U \in SUBSET Sources, NEW x \in Sources, U \in P, x \notin U
               PROVE  U \cup {x} \in P
    OBVIOUS
  <2> DEFINE m == [of |-> x, by |-> c, below |-> b]
  <2>1. M(U \cup {x}) = M(U) \cup {m}
    BY DEF CopiesOf
  <2>2. m \in CopyRow /\ m.of = x /\ m \notin M(U)
    BY DEF CopiesOf, CopyRow
  <2>3. IsFiniteSet(M(U)) /\ Total(CopySize, M(U)) = Bytes(U) /\ Cardinality(M(U)) = Cardinality(U)
    OBVIOUS
  <2>4. CopySize[m] = SizeOf[x]
    BY <2>2 DEF CopySize
  <2> HIDE DEF m, M
  <2>5. IsFiniteSet(M(U) \cup {m}) /\ Cardinality(M(U) \cup {m}) = Cardinality(M(U)) + 1
    BY <2>2, <2>3, FS_AddElement
  <2>6. Total(CopySize, M(U) \cup {m}) = SizeOf[x] + Bytes(U)
    BY <1>0, <2>2, <2>3, <2>4, TotalAdd
  <2>7. IsFiniteSet(U) /\ Cardinality(U \cup {x}) = Cardinality(U) + 1 /\ Bytes(U \cup {x}) = SizeOf[x] + Bytes(U)
    <3>1. IsFiniteSet(U)
      BY BytesNat
    <3>2. Cardinality(U \cup {x}) = Cardinality(U) + 1
      BY <3>1, FS_AddElement
    <3>3. SizeOf \in [Sources -> Nat]
      BY CopyAssumption
    <3>4. Total(SizeOf, U \cup {x}) = SizeOf[x] + Total(SizeOf, U)
      BY <3>1, <3>3, TotalAdd
    <3> QED
      BY <3>1, <3>2, <3>4 DEF Bytes
  <2> QED
    BY <2>1, <2>3, <2>5, <2>6, <2>7
<1> HIDE DEF P
<1>3. \A U \in SUBSET Sources : U \in P
  BY <1>1, <1>2, SubsetInduction, CopyAssumption
<1> QED
  BY <1>0, <1>3 DEF P

\* The rows after a transaction that copied the files T for the request c.
LEMMA CopiesMade ==
    ASSUME CopyInv, NEW c \in CopyRequests, NEW b \in SUBSET SourceFolders, NEW T \in SUBSET Sources,
           \A x \in copied : x.by = c => x.of \notin T, ContentsThere(T), ref' = RefsWith(T),
           copied' = copied \cup CopiesOf(T, c, b), alive' = alive, space'.used = space.used + Bytes(T)
    PROVE  /\ copied' \subseteq CopyRow /\ IsFiniteSet(copied') /\ ref' \in [Contents -> Int]
           /\ CopyUsedExact' /\ CopyContentKept' /\ CopiedOnce'
           /\ \A x \in copied' : x.by # c => x \in copied
           /\ \A x \in copied' : x.by = c => x \in copied \/ x.of \in T
<1> DEFINE M == CopiesOf(T, c, b)
<1>1. /\ copied \in SUBSET CopyRow /\ IsFiniteSet(copied) /\ alive \in SUBSET Sources /\ ref \in [Contents -> Int]
      /\ CopyUsedExact /\ CopyContentKept /\ CopiedOnce /\ IsFiniteSet(alive)
  BY BytesNat DEF CopyInv, CopyRows
<1>2. /\ M \in SUBSET CopyRow /\ IsFiniteSet(M) /\ Total(CopySize, M) = Bytes(T)
  BY CopiesMeasured
<1>3. \A x \in M : x.of \in T /\ x.by = c /\ x.below = b
  BY DEF CopiesOf
<1>4. M \cap copied = {}
  BY <1>3
<1>5. copied' \in SUBSET CopyRow /\ IsFiniteSet(copied')
  BY <1>1, <1>2, FS_Union
<1>6. CopySize \in [CopyRow -> Nat] /\ [x \in CopyRow |-> SizeOf[x.of]] = CopySize
  BY CopyAssumption DEF CopySize, CopyRow
<1>7. CopyUsedExact'
  <2>1. Total(CopySize, copied') = Total(CopySize, M) + Total(CopySize, copied' \ M)
    BY <1>2, <1>5, <1>6, TotalSplit
  <2>2. copied' \ M = copied
    BY <1>4
  <2>3. Total(CopySize, copied) \in Nat /\ Bytes(alive) \in Nat /\ Bytes(T) \in Nat
    BY <1>1, <1>6, TotalNat, BytesNat
  <2>4. space.used = Bytes(alive) + Total(CopySize, copied)
    BY <1>1, <1>6 DEF CopyUsedExact
  <2>5. space'.used = Bytes(alive) + Total(CopySize, copied')
    <3> DEFINE t == Bytes(T)
               a == Bytes(alive)
               d == Total(CopySize, copied)
    <3>1. Total(CopySize, copied') = t + d /\ t \in Nat /\ a \in Nat /\ d \in Nat
      BY <1>2, <2>1, <2>2, <2>3
    <3>2. space'.used = (a + d) + t
      BY <2>4
    <3> HIDE DEF t, a, d
    <3> QED
      BY <3>1, <3>2 DEF a
  <2> QED
    BY <2>5, <1>6 DEF CopyUsedExact
<1>8. CopiedOnce'
  <2> SUFFICES ASSUME NEW x \in copied', NEW y \in copied', x.of = y.of, x.by = y.by
               PROVE  x = y
    BY DEF CopiedOnce
  <2>1. CASE x \in copied /\ y \in copied
    BY <1>1, <2>1 DEF CopiedOnce
  <2>2. CASE x \in M /\ y \in M
    BY <2>2 DEF CopiesOf
  <2>3. CASE x \in M /\ y \in copied
    BY <1>3, <2>3
  <2>4. CASE x \in copied /\ y \in M
    BY <1>3, <2>4
  <2> QED
    BY <2>1, <2>2, <2>3, <2>4
<1>9. ASSUME NEW k \in Contents
      PROVE  /\ Cardinality({x \in copied' : ContentOf[x.of] = k})
                  = Cardinality({x \in copied : ContentOf[x.of] = k}) + Cardinality({f \in T : ContentOf[f] = k})
             /\ Cardinality({x \in copied : ContentOf[x.of] = k}) \in Nat
             /\ Cardinality({f \in T : ContentOf[f] = k}) \in Nat /\ Cardinality({f \in alive : ContentOf[f] = k}) \in Nat
  <2> DEFINE A == {x \in copied : ContentOf[x.of] = k}
             U == {f \in T : ContentOf[f] = k}
             N == CopiesOf(U, c, b)
             V == {f \in alive : ContentOf[f] = k}
  <2>1. {x \in copied' : ContentOf[x.of] = k} = A \cup N
    <3>1. {x \in M : ContentOf[x.of] = k} = N
      BY DEF CopiesOf
    <3> QED
      BY <3>1
  <2>2. A \cap N = {}
    BY DEF CopiesOf
  <2>3. IsFiniteSet(A) /\ IsFiniteSet(U) /\ IsFiniteSet(V)
    <3>1. A \subseteq copied /\ V \subseteq alive /\ U \in SUBSET Sources
      OBVIOUS
    <3> QED
      BY <3>1, <1>1, FS_Subset, BytesNat
  <2>4. IsFiniteSet(N) /\ Cardinality(N) = Cardinality(U)
    BY CopiesMeasured, U \in SUBSET Sources
  <2> HIDE DEF A, U, N, V
  <2>5. Cardinality(A \cup N) = Cardinality(A) + Cardinality(N)
    <3>1. Cardinality(A \cap N) = 0 /\ Cardinality(A) \in Nat /\ Cardinality(N) \in Nat
      BY <2>2, <2>3, <2>4, FS_EmptySet, FS_CardinalityType
    <3>2. Cardinality(A \cup N) = Cardinality(A) + Cardinality(N) - Cardinality(A \cap N)
      BY <2>3, <2>4, FS_Union
    <3> QED
      BY <3>1, <3>2
  <2>6. Cardinality(A) \in Nat /\ Cardinality(U) \in Nat /\ Cardinality(V) \in Nat
    BY <2>3, FS_CardinalityType
  <2> QED
    BY <2>1, <2>4, <2>5, <2>6 DEF A, U, V
<1>10. ref' \in [Contents -> Int]
  <2>1. \A k \in Contents : ref[k] + Cardinality({f \in T : ContentOf[f] = k}) \in Int
    <3> SUFFICES ASSUME NEW k \in Contents
                 PROVE  ref[k] + Cardinality({f \in T : ContentOf[f] = k}) \in Int
      OBVIOUS
    <3>1. ref[k] \in Int /\ Cardinality({f \in T : ContentOf[f] = k}) \in Nat
      BY <1>1, <1>9
    <3> QED
      BY <3>1
  <2> QED
    BY <2>1 DEF RefsWith
<1>11. CopyContentKept'
  <2> SUFFICES ASSUME NEW k \in Contents
               PROVE  LET owners == Cardinality({f \in alive : ContentOf[f] = k})
                                      + Cardinality({x \in copied' : ContentOf[x.of] = k})
                      IN IF ref'[k] = -1 THEN owners = 0 ELSE ref'[k] = owners
    BY DEF CopyContentKept
  <2> DEFINE n == Cardinality({f \in T : ContentOf[f] = k})
             a == Cardinality({f \in alive : ContentOf[f] = k})
             d == Cardinality({x \in copied : ContentOf[x.of] = k})
             e == Cardinality({x \in copied' : ContentOf[x.of] = k})
  <2>1. e = d + n /\ d \in Nat /\ n \in Nat /\ a \in Nat
    BY <1>9
  <2>2. ref'[k] = ref[k] + n /\ ref[k] \in Int
    BY <1>1 DEF RefsWith
  <2>3. IF ref[k] = -1 THEN a + d = 0 ELSE ref[k] = a + d
    BY <1>1 DEF CopyContentKept
  <2>4. CASE ref[k] = -1
    <3>1. {f \in T : ContentOf[f] = k} = {}
      BY <2>4 DEF ContentsThere
    <3>2. n = 0
      BY <3>1, FS_EmptySet
    <3> HIDE DEF n, a, d, e
    <3> QED
      BY <2>1, <2>2, <2>3, <2>4, <3>2 DEF n, a, d, e
  <2>5. CASE ref[k] # -1
    <3> HIDE DEF n, a, d, e
    <3>1. ref'[k] = a + e /\ ref'[k] # -1
      BY <2>1, <2>2, <2>3, <2>5
    <3> QED
      BY <3>1 DEF a, e
  <2> QED
    BY <2>4, <2>5
<1> QED
  BY <1>3, <1>5, <1>7, <1>8, <1>10, <1>11

\* A transaction copies the files T out of what the request has in hand and gives back r
\* bytes of the rest.
LEMMA CopyCommits ==
    ASSUME CopyInv, NEW c \in CopyRequests, NEW q \in CopyReqRow, creq' = [creq EXCEPT ![c] = q],
           NEW b \in SUBSET SourceFolders, NEW T \in SUBSET InHand(creq[c]), NEW r \in Nat,
           ContentsThere(T), ref' = RefsWith(T), copied' = copied \cup CopiesOf(T, c, b),
           UNCHANGED <<alive, grant>>, space' \in QuotaRow, space'.used = space.used + Bytes(T),
           space'.reserved = space.reserved - Bytes(T) - r,
           Running(creq[c]), Running(q), StepNamed(q), InHand(q) = {}, q.files = creq[c].files,
           q.folders = creq[c].folders, q.total = creq[c].total, q.actual = creq[c].actual + Bytes(T),
           q.released = creq[c].released + r, Held(creq[c]) = Held(q) + Bytes(T) + r
    PROVE  CopyInv'
<1> DEFINE o == creq[c]
<1>1. o \in CopyReqRow /\ Balanced(o) /\ PlannedOnce(o) /\ NotYetCopied(c, o, copied) /\ space \in QuotaRow
  BY RequestKnown DEF CopyInv, CopyRows
<1>2. InHand(o) \in SUBSET Sources /\ T \in SUBSET Sources
  <2>1. InHand(o) \in SUBSET Sources
    BY <1>1 DEF InHand, CopyReqRow
  <2> QED
    BY <2>1
<1>3. Bytes(T) \in Nat
  BY <1>2, BytesNat
<1>4. \A x \in copied : x.by = c => x.of \notin T
  BY <1>1 DEF NotYetCopied
<1>5. /\ copied' \subseteq CopyRow /\ IsFiniteSet(copied') /\ ref' \in [Contents -> Int]
      /\ CopyUsedExact' /\ CopyContentKept' /\ CopiedOnce'
      /\ \A x \in copied' : x.by # c => x \in copied
      /\ \A x \in copied' : x.by = c => x \in copied \/ x.of \in T
  BY <1>2, <1>4, CopiesMade
<1>6. PlannedOnce(q)
  BY <1>1 DEF PlannedOnce
<1>7. NotYetCopied(c, q, copied')
  <2>1. T \cap (o.files \cup CoveredFiles(o.folders)) = {}
    BY <1>1 DEF PlannedOnce
  <2> QED
    BY <1>1, <1>5, <2>1 DEF NotYetCopied, Running
<1>8. Rest(q) = Rest(o)
  BY DEF Rest
<1>9. Balanced(q) /\ Owed(q) = Owed(o) - Bytes(T) - r /\ Owed(q) \in Nat /\ Owed(o) \in Nat
  BY <1>1, <1>3, <1>8, SettledBalance
<1>10. space'.reserved = space.reserved - Owed(o) + Owed(q)
  <2> DEFINE t == Bytes(T)
             u == Owed(o)
             v == Owed(q)
  <2>1. t \in Nat /\ u \in Nat /\ v \in Nat /\ v = u - t - r /\ space.reserved \in Nat
    BY <1>1, <1>3, <1>9 DEF QuotaRow
  <2>2. space'.reserved = space.reserved - t - r
    OBVIOUS
  <2> HIDE DEF t, u, v
  <2>3. space'.reserved = space.reserved - u + v
    BY <2>1, <2>2
  <2> QED
    BY <2>3 DEF u, v
<1>11. CopyReqSound(c, q, copied')
  BY <1>6, <1>7, <1>9 DEF CopyReqSound
<1>12. /\ creq' \in [CopyRequests -> CopyReqRow] /\ ReservedOwed'
       /\ \A d \in CopyRequests : CopyReqSound(d, creq'[d], copied')
  BY <1>5, <1>10, <1>11, RequestMoves
<1>13. CopyRows'
  BY <1>5, <1>12 DEF CopyInv, CopyRows
<1> QED
  BY <1>5, <1>12, <1>13 DEF CopyInv

\* The quota row after a commit of reserved bytes.
LEMMA CommittedRow ==
    ASSUME NEW s \in QuotaRow, NEW b \in Nat, HasReserved(s, b)
    PROVE  LET r == CommitReservedToUsed(s, b)
           IN r \in QuotaRow /\ r.used = s.used + b /\ r.reserved = s.reserved - b
<1>1. s.reserved \in Nat /\ s.reserved - b \in Nat /\ s.used + b \in Nat
  BY DEF QuotaRow, HasReserved
<1> QED
  BY <1>1 DEF QuotaRow, CommitReservedToUsed

LEMMA CopyFilesTxKeeps ==
    ASSUME CopyInv, NEW c \in CopyRequests, CopyFilesTx(c)
    PROVE  CopyInv'
<1> DEFINE o     == creq[c]
           items == o.valid \ target.names
           late  == o.valid \ items
           early == o.batch \ o.valid
           paid  == CommitReservedToUsed(space, Bytes(items))
           done  == [o EXCEPT !.actual = @ + Bytes(items), !.released = @ + Bytes(late), !.valid = {}]
           q     == [done EXCEPT !.pc = "release", !.release = Bytes(early), !.next = "loop"]
<1>1. /\ o.pc = "filesTx" /\ ContentsThere(items) /\ HasReserved(space, Bytes(items)) /\ HasReserved(paid, Bytes(late))
      /\ ref' = RefsWith(items) /\ copied' = copied \cup CopiesOf(items, c, {})
      /\ space' = ReleaseReservedStorage(paid, Bytes(late)) /\ creq' = [creq EXCEPT ![c] = q] /\ UNCHANGED <<alive, grant>>
  BY DEF CopyFilesTx, Pc, Becomes_, Releasing, CopiesOf
<1>2. o \in CopyReqRow /\ Balanced(o) /\ space \in QuotaRow
  BY RequestKnown DEF CopyInv, CopyRows
<1>3. /\ o.valid \in SUBSET o.batch /\ o.batch \in SUBSET Sources /\ o.valid \in SUBSET Sources
      /\ o.actual \in Nat /\ o.released \in Nat
  BY <1>1, <1>2 DEF CopyReqRow, Balanced
<1>4. /\ Bytes(items) \in Nat /\ Bytes(late) \in Nat /\ Bytes(early) \in Nat
      /\ Bytes(o.batch) = Bytes(early) + Bytes(items) + Bytes(late)
  <2>1. items \in SUBSET Sources /\ late \in SUBSET Sources /\ early \in SUBSET Sources /\ items \in SUBSET o.valid
    BY <1>3
  <2>2. Bytes(items) \in Nat /\ Bytes(late) \in Nat /\ Bytes(early) \in Nat
    BY <2>1, BytesNat
  <2>3. Bytes(o.batch) = Bytes(o.valid) + Bytes(early) /\ Bytes(o.valid) = Bytes(items) + Bytes(late)
    BY <1>3, <2>1, BytesSplit
  <2> HIDE DEF items, late, early, o
  <2> QED
    BY <2>2, <2>3
<1>5. items \in SUBSET InHand(o)
  BY <1>1, <1>3 DEF InHand
<1> HIDE DEF items, late, early
<1>6. /\ done \in CopyReqRow /\ done.files = o.files /\ done.folders = o.folders /\ done.total = o.total
      /\ done.actual = o.actual + Bytes(items) /\ done.released = o.released + Bytes(late)
  <2>1. o.actual + Bytes(items) \in Nat /\ o.released + Bytes(late) \in Nat
    BY <1>3, <1>4
  <2> QED
    BY <1>2, <2>1 DEF CopyReqRow
<1> HIDE DEF done
<1>7. /\ q \in CopyReqRow /\ q.files = o.files /\ q.folders = o.folders /\ q.total = o.total
      /\ q.actual = o.actual + Bytes(items) /\ q.released = o.released + Bytes(late)
      /\ q.pc = "release" /\ q.release = Bytes(early) /\ q.next = "loop"
  BY <1>4, <1>6 DEF CopyReqRow, CopySteps
<1> HIDE DEF q
<1>8. paid \in QuotaRow /\ paid.used = space.used + Bytes(items) /\ paid.reserved = space.reserved - Bytes(items)
  BY <1>1, <1>2, <1>4, CommittedRow
<1> HIDE DEF paid
<1>9. /\ space' \in QuotaRow /\ space'.used = space.used + Bytes(items)
      /\ space'.reserved = space.reserved - Bytes(items) - Bytes(late)
  BY <1>1, <1>4, <1>8, ReleasedRow
<1>10. Running(o) /\ Running(q) /\ StepNamed(q) /\ InHand(q) = {} /\ Held(o) = Bytes(o.batch) /\ Held(q) = Bytes(early)
  BY <1>1, <1>7 DEF Running, StepNamed, InHand, Held
<1>11. Held(o) = Held(q) + Bytes(items) + Bytes(late)
  BY <1>4, <1>10
<1>12. {} \in SUBSET SourceFolders
  OBVIOUS
<1> QED
  BY <1>1, <1>4, <1>5, <1>7, <1>9, <1>10, <1>11, <1>12, CopyCommits

LEMMA CopyFolderTxKeeps ==
    ASSUME CopyInv, NEW c \in CopyRequests, CopyFolderTx(c)
    PROVE  CopyInv'
<1> DEFINE o == creq[c]
           n == Bytes(o.batch)
<1>1. /\ o \in CopyReqRow /\ Balanced(o) /\ space \in QuotaRow /\ o.pc = "folderTx" /\ UNCHANGED <<alive, grant>>
  BY RequestKnown DEF CopyInv, CopyRows, CopyFolderTx, Pc
<1>2. /\ n \in Nat /\ o.actual \in Nat /\ o.released \in Nat /\ o.folder \in SUBSET SourceFolders
      /\ o.actual + n \in Nat /\ o.released + n \in Nat
  <2>1. n \in Nat
    BY <1>1, RestNat
  <2> HIDE DEF n
  <2> QED
    BY <1>1, <2>1 DEF CopyReqRow
<1>3. Running(o) /\ Held(o) = n /\ InHand(o) = o.batch
  BY <1>1 DEF Running, Held, InHand
<1>4. CASE /\ HasReserved(space, n) /\ space' = ReleaseReservedStorage(space, n)
           /\ creq' = [creq EXCEPT ![c] = [o EXCEPT !.pc = "loop", !.released = @ + n, !.batch = {}, !.folder = {}]]
           /\ UNCHANGED <<ref, copied>>
  <2> DEFINE q == [o EXCEPT !.pc = "loop", !.released = @ + n, !.batch = {}, !.folder = {}]
  <2> HIDE DEF n
  <2>1. /\ q \in CopyReqRow /\ q.pc = "loop" /\ q.files = o.files /\ q.folders = o.folders /\ q.total = o.total
        /\ q.actual = o.actual /\ q.released = o.released + n
    BY <1>1, <1>2 DEF CopyReqRow, CopySteps
  <2>2. creq' = [creq EXCEPT ![c] = q]
    BY <1>4
  <2> HIDE DEF q
  <2> QED
    BY <1>1, <1>2, <1>3, <1>4, <2>1, <2>2, GivenBack
<1>5. CASE /\ ContentsThere(o.batch) /\ HasReserved(space, n) /\ ref' = RefsWith(o.batch)
           /\ copied' = copied \cup CopiesOf(o.batch, c, o.folder) /\ space' = CommitReservedToUsed(space, n)
           /\ creq' = [creq EXCEPT ![c] = [o EXCEPT !.pc = "loop", !.actual = @ + n, !.batch = {}, !.folder = {}]]
  <2> DEFINE q == [o EXCEPT !.pc = "loop", !.actual = @ + n, !.batch = {}, !.folder = {}]
  <2>1. space' \in QuotaRow /\ space'.used = space.used + n /\ space'.reserved = space.reserved - n
    BY <1>1, <1>2, <1>5, CommittedRow
  <2>2. creq' = [creq EXCEPT ![c] = q]
    BY <1>5
  <2>3. /\ q \in CopyReqRow /\ q.pc = "loop" /\ q.files = o.files /\ q.folders = o.folders /\ q.total = o.total
        /\ q.actual = o.actual + n /\ q.released = o.released
    <3> HIDE DEF n
    <3> QED
      BY <1>1, <1>2 DEF CopyReqRow, CopySteps
  <2> HIDE DEF q
  <2>4. Running(q) /\ StepNamed(q) /\ InHand(q) = {} /\ Held(q) = 0
    BY <2>3 DEF Running, StepNamed, InHand, Held
  <2>5. /\ q.released = o.released + 0 /\ Held(o) = Held(q) + n + 0 /\ space'.reserved = space.reserved - n - 0
    <3>1. space.reserved \in Nat
      BY <1>1 DEF QuotaRow
    <3> HIDE DEF n
    <3> QED
      BY <1>2, <1>3, <2>1, <2>3, <2>4, <3>1
  <2>6. o.batch \in SUBSET InHand(o) /\ 0 \in Nat
    BY <1>3
  <2> QED
    BY <1>1, <1>2, <1>3, <1>5, <2>1, <2>2, <2>3, <2>4, <2>5, <2>6, CopyCommits
<1> QED
  BY <1>4, <1>5 DEF CopyFolderTx, Becomes_, CopiesOf

-----------------------------------------------------------------------------
(* The other requests, and the theorem.                                    *)

LEMMA ContentOwnersCounted ==
    ASSUME CopyInv, NEW k \in Contents
    PROVE  /\ Cardinality({f \in alive : ContentOf[f] = k}) \in Nat
           /\ Cardinality({x \in copied : ContentOf[x.of] = k}) \in Nat
<1>1. {f \in alive : ContentOf[f] = k} \in SUBSET alive /\ {x \in copied : ContentOf[x.of] = k} \in SUBSET copied
  OBVIOUS
<1>2. IsFiniteSet(alive) /\ IsFiniteSet(copied)
  BY BytesNat DEF CopyInv, CopyRows
<1> QED
  BY <1>1, <1>2, FS_Subset, FS_CardinalityType

\* The rows of requests and copies stay as they are.
LEMMA RequestsStay ==
    ASSUME CopyInv, UNCHANGED <<creq, copied>>, space' \in QuotaRow, space'.reserved = space.reserved,
           alive' \subseteq Sources, ref' \in [Contents -> Int], grant'.quota \in Nat, CopyUsedExact', CopyContentKept'
    PROVE  CopyInv'
<1>1. CopyRows'
  BY DEF CopyInv, CopyRows
<1>2. ReservedOwed' /\ CopiedOnce' /\ \A c \in CopyRequests : CopyReqSound(c, creq'[c], copied')
  BY DEF CopyInv, ReservedOwed, CopiedOnce
<1> QED
  BY <1>1, <1>2 DEF CopyInv

LEMMA PurgeSourceKeeps ==
    ASSUME CopyInv, NEW f \in Sources, PurgeSource(f)
    PROVE  CopyInv'
<1> DEFINE z == SizeOf[f]
           rest == alive \ {f}
<1>1. /\ f \in alive /\ alive' = rest /\ ref' = [ref EXCEPT ![ContentOf[f]] = @ - 1]
      /\ space' = [space EXCEPT !.used = @ - z] /\ UNCHANGED <<copied, creq, grant>>
  BY DEF PurgeSource
<1>2. /\ space \in QuotaRow /\ alive \in SUBSET Sources /\ ref \in [Contents -> Int] /\ grant.quota \in Nat
      /\ CopyUsedExact /\ CopyContentKept /\ copied \in SUBSET CopyRow /\ IsFiniteSet(copied)
  BY DEF CopyInv, CopyRows
<1>3. z \in Nat /\ ContentOf[f] \in Contents /\ IsFiniteSet(alive) /\ SizeOf \in [Sources -> Nat]
  BY <1>2, CopyAssumption, BytesNat
<1>4. Bytes(alive) = z + Bytes(rest) /\ Bytes(rest) \in Nat
  <2>1. Total(SizeOf, alive) = z + Total(SizeOf, rest)
    BY <1>1, <1>2, <1>3, TotalRemove
  <2>2. Bytes(rest) \in Nat
    BY <1>2, BytesNat
  <2> QED
    BY <2>1, <2>2 DEF Bytes
<1> DEFINE W == [x \in CopyRow |-> SizeOf[x.of]]
<1>5. Total(W, copied) \in Nat
  <2>1. W \in [CopyRow -> Nat]
    BY CopyAssumption DEF CopyRow
  <2> HIDE DEF W
  <2> QED
    BY <1>2, <2>1, TotalNat
<1>6. space.used = Bytes(alive) + Total(W, copied)
  BY <1>2 DEF CopyUsedExact
<1>7. space.used - z = Bytes(rest) + Total(W, copied) /\ space.used - z \in Nat
  <2> HIDE DEF z, rest, W
  <2> QED
    BY <1>3, <1>4, <1>5, <1>6
<1>8. space' \in QuotaRow /\ space'.used = space.used - z /\ space'.reserved = space.reserved
  <2> HIDE DEF z
  <2> QED
    BY <1>1, <1>2, <1>7 DEF QuotaRow
<1>9. CopyUsedExact'
  BY <1>1, <1>7, <1>8 DEF CopyUsedExact
<1>10. ref' \in [Contents -> Int]
  BY <1>1, <1>2, <1>3
<1>11. CopyContentKept'
  <2> SUFFICES ASSUME NEW k \in Contents
               PROVE  LET owners == Cardinality({g \in rest : ContentOf[g] = k})
                                      + Cardinality({x \in copied : ContentOf[x.of] = k})
                      IN IF ref'[k] = -1 THEN owners = 0 ELSE ref'[k] = owners
    BY <1>1 DEF CopyContentKept
  <2> DEFINE A == {g \in alive : ContentOf[g] = k}
             B == {g \in rest : ContentOf[g] = k}
             d == Cardinality({x \in copied : ContentOf[x.of] = k})
  <2>1. Cardinality(A) \in Nat /\ d \in Nat
    BY ContentOwnersCounted
  <2>2. IF ref[k] = -1 THEN Cardinality(A) + d = 0 ELSE ref[k] = Cardinality(A) + d
    BY <1>2 DEF CopyContentKept
  <2>3. CASE k # ContentOf[f]
    <3>1. B = A /\ ref'[k] = ref[k]
      BY <1>1, <1>2, <2>3
    <3> QED
      BY <2>2, <3>1
  <2>4. CASE k = ContentOf[f]
    <3>1. f \in A /\ B = A \ {f} /\ A \subseteq alive
      BY <1>1, <2>4
    <3>2. IsFiniteSet(A)
      BY <1>3, <3>1, FS_Subset
    <3>3. Cardinality(B) = Cardinality(A) - 1 /\ Cardinality(B) \in Nat
      BY <3>1, <3>2, FS_RemoveElement, FS_CardinalityType
    <3>4. ref'[k] = ref[k] - 1
      BY <1>1, <1>2, <2>4
    <3> HIDE DEF A, B, d
    <3>5. ref'[k] = Cardinality(B) + d /\ ref'[k] # -1
      BY <2>1, <2>2, <3>3, <3>4
    <3> QED
      BY <3>5 DEF B, d
  <2> QED
    BY <2>3, <2>4
<1>12. alive' \subseteq Sources /\ grant'.quota \in Nat
  BY <1>1, <1>2
<1> QED
  BY <1>1, <1>8, <1>9, <1>10, <1>11, <1>12, RequestsStay

LEMMA CollectContentKeeps ==
    ASSUME CopyInv, NEW k \in Contents, CollectContent(k)
    PROVE  CopyInv'
<1>1. ref[k] = 0 /\ ref' = [ref EXCEPT ![k] = -1] /\ UNCHANGED <<space, alive, copied, creq, grant>>
  BY DEF CollectContent
<1>2. space \in QuotaRow /\ alive \subseteq Sources /\ ref \in [Contents -> Int] /\ grant.quota \in Nat
  BY DEF CopyInv, CopyRows
<1>3. CopyUsedExact'
  BY <1>1 DEF CopyInv, CopyUsedExact
<1>4. CopyContentKept'
  <2>1. \A j \in Contents : ref'[j] = IF j = k THEN -1 ELSE ref[j]
    BY <1>1, <1>2
  <2> QED
    BY <1>1, <2>1 DEF CopyInv, CopyContentKept
<1>5. ref' \in [Contents -> Int]
  BY <1>1, <1>2
<1> QED
  BY <1>1, <1>2, <1>3, <1>4, <1>5, RequestsStay

LEMMA OtherStepsKeep ==
    ASSUME CopyInv, \/ \E n \in Sources \cup SourceFolders : TakeName(n)
                    \/ RemoveTarget \/ ReadSpace \/ ChangeUserAvailableSpace
                    \/ UNCHANGED copyVars
    PROVE  CopyInv'
<1>1. space \in QuotaRow /\ alive \subseteq Sources /\ ref \in [Contents -> Int] /\ grant.quota \in Nat
  BY DEF CopyInv, CopyRows
<1>2. UNCHANGED <<alive, ref, copied, creq>>
  BY DEF TakeName, RemoveTarget, ReadSpace, ChangeUserAvailableSpace, copyVars
<1>3. space' \in QuotaRow /\ space'.used = space.used /\ space'.reserved = space.reserved /\ grant'.quota \in Nat
  <2>1. CASE ReadSpace
    <3>1. grant'.quota = space.used + space.reserved + GrantedSpace /\ space' = space
      BY <2>1 DEF ReadSpace
    <3> QED
      BY <1>1, <3>1, CopyAssumption DEF QuotaRow
  <2>2. CASE ChangeUserAvailableSpace
    <3>1. space' = [space EXCEPT !.quota = grant.quota] /\ grant' = [NoGrant EXCEPT !.pc = "done"]
      BY <2>2 DEF ChangeUserAvailableSpace, UpdatedSpace
    <3> QED
      BY <1>1, <3>1 DEF QuotaRow, NoGrant
  <2>3. CASE UNCHANGED <<space, grant>>
    BY <1>1, <2>3
  <2> QED
    BY <2>1, <2>2, <2>3 DEF TakeName, RemoveTarget, copyVars
<1>4. CopyUsedExact' /\ CopyContentKept'
  BY <1>2, <1>3 DEF CopyInv, CopyUsedExact, CopyContentKept
<1> QED
  BY <1>1, <1>2, <1>3, <1>4, RequestsStay

LEMMA CopyInitSound ==
    ASSUME CopyInit
    PROVE  CopyInv
<1>1. /\ space = [quota |-> StartQuota, used |-> Bytes(Sources), reserved |-> 0] /\ alive = Sources
      /\ ref = [c \in Contents |-> Cardinality({f \in Sources : ContentOf[f] = c})]
      /\ copied = {} /\ creq = [c \in CopyRequests |-> IdleCopy] /\ grant = NoGrant
  BY DEF CopyInit
<1>2. Bytes(Sources) \in Nat /\ IsFiniteSet(Sources)
  BY BytesNat
<1>3. \A k \in Contents : Cardinality({f \in Sources : ContentOf[f] = k}) \in Nat
  <2>1. \A k \in Contents : {f \in Sources : ContentOf[f] = k} \in SUBSET Sources
    OBVIOUS
  <2> QED
    BY <1>2, <2>1, FS_Subset, FS_CardinalityType
<1>4. CopyRows
  <2>1. space \in QuotaRow /\ grant.quota \in Nat
    BY <1>1, <1>2, CopyAssumption DEF QuotaRow, NoGrant
  <2>2. ref \in [Contents -> Int]
    BY <1>1, <1>3
  <2>3. creq \in [CopyRequests -> CopyReqRow]
    BY <1>1, IdleCopyRow
  <2> QED
    BY <1>1, <2>1, <2>2, <2>3, FS_EmptySet DEF CopyRows
<1>5. IdleCopy.pc = "idle" /\ IdleCopy.files = {} /\ IdleCopy.folders = {} /\ IdleCopy.total = 0
      /\ IdleCopy.actual = 0 /\ IdleCopy.released = 0
  BY DEF IdleCopy
<1>6. Balanced(IdleCopy) /\ PlannedOnce(IdleCopy) /\ Owed(IdleCopy) = 0
  <2>1. Rest(IdleCopy) = 0 /\ Held(IdleCopy) = 0 /\ InHand(IdleCopy) = {}
    <3>1. Bytes({}) = 0 /\ Total(FolderBytes, {}) = 0
      BY BytesEmpty, FolderBytesNat
    <3> HIDE DEF IdleCopy
    <3> QED
      BY <1>5, <3>1 DEF Rest, Held, InHand
  <2> HIDE DEF IdleCopy
  <2> QED
    BY <1>5, <2>1 DEF Balanced, PlannedOnce, Owed
<1>7. \A c \in CopyRequests : CopyReqSound(c, creq[c], copied)
  <2> HIDE DEF IdleCopy
  <2> QED
    BY <1>1, <1>6, IdleCopyRow DEF CopyReqSound, NotYetCopied
<1>8. ReservedOwed
  <2> DEFINE W == [c \in CopyRequests |-> Owed(creq[c])]
             P == {S \in SUBSET CopyRequests : Total(W, S) = 0}
  <2>1. W \in [CopyRequests -> Nat] /\ \A c \in CopyRequests : W[c] = 0
    <3> HIDE DEF IdleCopy
    <3> QED
      BY <1>1, <1>6
  <2> HIDE DEF W
  <2>2. {} \in P
    BY <2>1, TotalEmpty
  <2>3. \A S \in SUBSET CopyRequests, x \in CopyRequests : S \in P /\ x \notin S => S \cup {x} \in P
    <3> SUFFICES ASSUME NEW S \in SUBSET CopyRequests, NEW x \in CopyRequests, S \in P, x \notin S
                 PROVE  S \cup {x} \in P
      OBVIOUS
    <3>1. IsFiniteSet(S)
      BY FS_Subset, CopyAssumption
    <3>2. Total(W, S \cup {x}) = W[x] + Total(W, S)
      BY <2>1, <3>1, TotalAdd
    <3> QED
      BY <2>1, <3>2
  <2> HIDE DEF P
  <2>4. \A S \in SUBSET CopyRequests : S \in P
    BY <2>2, <2>3, SubsetInduction, CopyAssumption
  <2>5. Total(W, CopyRequests) = 0
    BY <2>4 DEF P
  <2> QED
    BY <1>1, <2>5 DEF ReservedOwed, W
<1>9. CopyUsedExact
  <2> DEFINE W == [x \in CopyRow |-> SizeOf[x.of]]
  <2>1. W \in [CopyRow -> Nat]
    BY CopyAssumption DEF CopyRow
  <2> HIDE DEF W
  <2>2. Total(W, {}) = 0
    BY <2>1, TotalEmpty
  <2>3. space.used = Bytes(alive) + Total(W, copied)
    BY <1>1, <1>2, <2>2
  <2> QED
    BY <2>3 DEF CopyUsedExact, W
<1>10. CopyContentKept
  <2> SUFFICES ASSUME NEW k \in Contents
               PROVE  LET owners == Cardinality({f \in alive : ContentOf[f] = k})
                                      + Cardinality({x \in copied : ContentOf[x.of] = k})
                      IN IF ref[k] = -1 THEN owners = 0 ELSE ref[k] = owners
    BY DEF CopyContentKept
  <2>1. {x \in copied : ContentOf[x.of] = k} = {}
    BY <1>1
  <2>2. Cardinality({x \in copied : ContentOf[x.of] = k}) = 0
    BY <2>1, FS_EmptySet
  <2>3. ref[k] = Cardinality({f \in alive : ContentOf[f] = k}) /\ ref[k] \in Nat
    BY <1>1, <1>3
  <2> QED
    BY <2>2, <2>3
<1>11. CopiedOnce
  BY <1>1 DEF CopiedOnce
<1> QED
  BY <1>4, <1>7, <1>8, <1>9, <1>10, <1>11 DEF CopyInv

\* For any files, folders, requests, batch size and quota: between any two transactions of
\* FileMutationService::Copy the reserved bytes are those of the requests that have not
\* settled, the used bytes and the reference counts those of the files and the copies, and
\* no request copies a file twice, whatever is purged, renamed, removed or refused meanwhile.
THEOREM CopiesAccountedHolds == CopySpec => []CopiesAccounted
<1>1. CopyInit => CopyInv
  BY CopyInitSound
<1>2. CopyInv /\ [CopyNext]_copyVars => CopyInv'
  BY CopyPlanKeeps, CopyRefusedKeeps, CopyReserveKeeps, CopyFilesQueryKeeps, CopyFilesTxKeeps,
     CopyFolderQueryKeeps, CopyFolderTxKeeps, CopyReleaseKeeps, CopySettlesNothing,
     PurgeSourceKeeps, CollectContentKeeps, OtherStepsKeep DEF CopyNext
<1>3. CopyInv => CopiesAccounted
  <2> SUFFICES ASSUME CopyInv
               PROVE  CopiesAccounted
    OBVIOUS
  <2>1. \A k \in Contents : ref[k] + 1 \in Nat
    <3> SUFFICES ASSUME NEW k \in Contents
                 PROVE  ref[k] + 1 \in Nat
      OBVIOUS
    <3> DEFINE a == Cardinality({f \in alive : ContentOf[f] = k})
               d == Cardinality({x \in copied : ContentOf[x.of] = k})
    <3>1. a \in Nat /\ d \in Nat
      BY ContentOwnersCounted
    <3>2. IF ref[k] = -1 THEN a + d = 0 ELSE ref[k] = a + d
      BY DEF CopyInv, CopyContentKept
    <3> HIDE DEF a, d
    <3> QED
      BY <3>1, <3>2
  <2>2. \A c \in CopyRequests : {creq[c].total, creq[c].actual, creq[c].released} \subseteq Nat
    BY RequestKnown DEF CopyReqRow
  <2>3. CopyTypeOK
    BY <2>1, <2>2 DEF CopyTypeOK, CopyInv, CopyRows
  <2>4. \A c \in CopyRequests : Pc(c, "answered") => creq[c].total = creq[c].actual + creq[c].released
    <3> SUFFICES ASSUME NEW c \in CopyRequests, Pc(c, "answered")
                 PROVE  creq[c].total = creq[c].actual + creq[c].released
      OBVIOUS
    <3>1. creq[c] \in CopyReqRow /\ Balanced(creq[c]) /\ creq[c].pc = "answered"
      BY RequestKnown DEF Pc
    <3>2. Rest(creq[c]) = 0 + 0 /\ Held(creq[c]) = 0
      BY <3>1, BytesEmpty, FolderBytesNat DEF Balanced, Rest, Held
    <3>3. creq[c].total = creq[c].actual + creq[c].released + Rest(creq[c]) + Held(creq[c])
      BY <3>1 DEF Balanced
    <3>4. creq[c].actual \in Nat /\ creq[c].released \in Nat
      BY <3>1 DEF CopyReqRow
    <3> QED
      BY <3>2, <3>3, <3>4
  <2> QED
    BY <2>3, <2>4 DEF CopiesAccounted, CopyReservationSettled, CopyInv, ReservedOwed
<1> QED
  BY <1>1, <1>2, <1>3, PTL DEF CopySpec

-----------------------------------------------------------------------------
(* Reads: the inductive invariant.                                         *)

ListPages == [total : Nat, page : Nat]
ListerStates == {"idle", "lookup", "count", "page", "store", "served"}
ListerRows ==
    [pc : ListerStates, version : Nat, cacheable : BOOLEAN, total : Nat, page : Nat,
     due : Nat, hit : BOOLEAN]

Fresh(p, due) == p.total >= due /\ p.page >= due

\* Only a mutation that is over has moved the generation, once.
GenerationsCounted == generation <= Cardinality({m \in Mutators : mutator[m] = -1})

ListType ==
    /\ committed \in Nat /\ generation \in Nat /\ invalidated \in Nat
    /\ mutator \in [Mutators -> Int]
    /\ cached \in [Versions -> SUBSET ListPages]
    /\ lister \in [Listers -> ListerRows]

\* What was announced has committed.
AnnouncedCommitted == invalidated <= committed /\ \A m \in Mutators : mutator[m] <= committed

\* Nothing is stored under a generation to come, and what is stored under the
\* present one has everything that was announced.
PresentPagesFresh ==
    /\ \A v \in Versions : v > generation => cached[v] = {}
    /\ \A p \in cached[generation] : Fresh(p, invalidated)

\* A request that may store or read pages of a generation asks for what was
\* announced in that generation, and all pages of it have that.
ListerInStep(r) ==
    /\ r.version <= generation
    /\ r.due <= invalidated
    /\ r.pc \in {"page", "store", "served"} => r.total >= r.due
    /\ r.pc \in {"store", "served"} => r.page >= r.due
    /\ r.pc \in {"lookup", "store"} => r.cacheable
    /\ r.pc = "idle" => ~r.cacheable
    /\ r.cacheable /\ r.version = generation => r.due = invalidated
    /\ r.cacheable => \A p \in cached[r.version] : Fresh(p, r.due)

SameGenerationSameDue ==
    \A k, l \in Listers :
        lister[k].cacheable /\ lister[l].cacheable /\ lister[k].version = lister[l].version
            => lister[k].due = lister[l].due

ListInv ==
    /\ ListType /\ GenerationsCounted /\ AnnouncedCommitted /\ PresentPagesFresh
    /\ \A l \in Listers : ListerInStep(lister[l])
    /\ SameGenerationSameDue

DownloadRows ==
    [pc : {"idle", "refused", "open", "stream", "sent", "cut"}, start : Nat, length : Nat,
     delivered : Nat, blob : Nat, findings : Nat]

DownloadInv ==
    /\ download \in DownloadRows
    /\ download.pc \in {"open", "stream", "sent", "cut"} => download.start + download.length <= FileSize
    /\ download.pc \in {"idle", "open", "stream", "sent"} => download.findings = 0
    /\ download.pc \in {"idle", "open"} => download.delivered = 0
    /\ download.pc = "open" => download.length > 0
    /\ download.pc \in {"stream", "cut"} => download.delivered < download.length
    /\ download.pc = "sent" => download.delivered = download.length
    /\ download.pc = "cut" => download.findings = 1

RowCount == Cardinality(Rows)

\* The rows a walk has seen are the first ones of the listing, in its order.
WalkInv ==
    /\ walk \in [next : Nat \ {0}, seen : Seq(Rows)]
    /\ Len(walk.seen) = IF Offset(walk.next) < RowCount THEN Offset(walk.next) ELSE RowCount
    /\ walk.next > 1 => Sorted # {}
    /\ \A s \in Sorted : \A i \in 1..Len(walk.seen) : walk.seen[i] = s[i]

ReadsInv == ListInv /\ DownloadInv /\ WalkInv

-----------------------------------------------------------------------------
(* Downloads.                                                              *)

LEMMA RangeInFile ==
    ASSUME NEW h \in RangeHeaders, RangeRequest(h).ok
    PROVE  /\ RangeRequest(h).start \in Nat
           /\ RangeRequest(h).end - RangeRequest(h).start + 1 \in Nat \ {0}
           /\ RangeRequest(h).start + (RangeRequest(h).end - RangeRequest(h).start + 1) <= FileSize
<1> DEFINE r == RangeRequest(h)
<1>1. FileSize \in Nat \ {0} /\ ByteOffsets \subseteq Nat
  BY ReadsAssumption
<1>2. /\ h.kind \in {"none", "malformed", "bytes"}
      /\ h.kind = "bytes" => h.first \in Nat \cup {-1} /\ h.last \in Nat \cup {-1}
  <2>1. CASE h \in {[kind |-> k, first |-> NoNumber, last |-> NoNumber] : k \in {"none", "malformed"}}
    BY <2>1
  <2>2. CASE h \in [kind : {"bytes"}, first : ByteOffsets \cup {NoNumber}, last : ByteOffsets \cup {NoNumber}]
    BY <2>2, <1>1 DEF NoNumber
  <2> QED
    BY <2>1, <2>2 DEF RangeHeaders
<1>3. CASE h.kind = "none"
  BY <1>1, <1>3 DEF RangeRequest
<1>4. CASE h.kind = "malformed"
  BY <1>4 DEF RangeRequest, Unsatisfiable
<1>5. CASE h.kind = "bytes" /\ h.first = -1
  <2>1. h.last # -1 /\ RangeRequest(h) = SuffixRange(h.last)
    BY <1>5 DEF RangeRequest, Unsatisfiable, NoNumber
  <2> QED
    BY <2>1, <1>1, <1>2, <1>5 DEF SuffixRange
<1>6. CASE h.kind = "bytes" /\ h.first # -1
  <2>1. RangeRequest(h) = FixedRange(h.first, h.last)
    BY <1>6 DEF RangeRequest, NoNumber
  <2> QED
    BY <2>1, <1>1, <1>2, <1>6 DEF FixedRange, Unsatisfiable, NoNumber
<1> QED
  BY <1>2, <1>3, <1>4, <1>5, <1>6

LEMMA DownloadFields ==
    ASSUME DownloadInv
    PROVE  /\ download.pc \in {"idle", "refused", "open", "stream", "sent", "cut"}
           /\ download.start \in Nat /\ download.length \in Nat /\ download.delivered \in Nat
           /\ download.blob \in Nat /\ download.findings \in Nat
BY DEF DownloadInv, DownloadRows

LEMMA DownloadKept ==
    ASSUME DownloadInv, DownloadNext
    PROVE  DownloadInv'
<1>1. FileSize \in Nat \ {0}
  BY ReadsAssumption
<1>f. /\ download.pc \in {"idle", "refused", "open", "stream", "sent", "cut"}
      /\ download.start \in Nat /\ download.length \in Nat /\ download.delivered \in Nat
      /\ download.blob \in Nat /\ download.findings \in Nat
  BY DownloadFields
<1>2. CASE \E h \in RangeHeaders : DownloadStart(h)
  <2>1. PICK h \in RangeHeaders : DownloadStart(h)
    BY <1>2
  <2>2. CASE ~RangeRequest(h).ok
    <3>1. download' = [download EXCEPT !.pc = "refused", !.findings = 0]
      BY <2>1, <2>2 DEF DownloadStart, Refuses
    <3> QED
      BY <3>1, <1>f DEF DownloadInv, DownloadRows
  <2>3. CASE RangeRequest(h).ok
    <3>1. CASE download.blob # FileSize
      <4>1. download' = [download EXCEPT !.pc = "refused", !.findings = 1]
        BY <2>1, <2>3, <3>1 DEF DownloadStart, Refuses
      <4> QED
        BY <4>1, <1>f DEF DownloadInv, DownloadRows
    <3>2. CASE download.blob = FileSize
      <4> DEFINE a == RangeRequest(h).start
                 n == RangeRequest(h).end - RangeRequest(h).start + 1
      <4>1. a \in Nat /\ n \in Nat \ {0} /\ a + n <= FileSize
        BY RangeInFile, <2>3
      <4>2. /\ download.pc = "idle"
            /\ download' = [download EXCEPT !.pc = "open", !.start = a, !.length = n]
        BY <2>1, <2>3, <3>2 DEF DownloadStart
      <4> HIDE DEF a, n
      <4>3. download' \in DownloadRows
        BY <4>1, <4>2, <1>f DEF DownloadInv, DownloadRows
      <4>4. /\ download'.pc = "open" /\ download'.start = a /\ download'.length = n
            /\ download'.delivered = download.delivered /\ download'.findings = download.findings
        BY <4>2 DEF DownloadInv, DownloadRows
      <4> QED
        BY <4>1, <4>2, <4>3, <4>4, <1>1, <1>f DEF DownloadInv
    <3> QED
      BY <3>1, <3>2
  <2> QED
    BY <2>2, <2>3
<1>3. CASE DownloadOpen
  <2>1. CASE download' = [download EXCEPT !.pc = "stream"]
    BY <2>1, <1>1, <1>3, <1>f DEF DownloadOpen, DownloadInv, DownloadRows
  <2>2. CASE download' = [download EXCEPT !.pc = "refused", !.findings = 1]
    BY <2>2, <1>f DEF DownloadInv, DownloadRows
  <2> QED
    BY <1>3, <2>1, <2>2 DEF DownloadOpen, Refuses
<1>4. CASE StreamRead
  <2>1. PICK n \in 0..(IF Readable > 0 THEN Readable ELSE 0) : ReadBytes(n)
    BY <1>4 DEF StreamRead
  <2>2. n \in Nat /\ (n > 0 => n <= download.length - download.delivered)
    <3>1. Readable \in Int /\ Readable <= download.length - download.delivered
      BY <1>f DEF Readable
    <3> QED
      BY <2>1, <3>1, <1>f
  <2>s. download.pc = "stream"
    BY <1>4 DEF StreamRead
  <2>i. /\ download.start + download.length <= FileSize
        /\ download.findings = 0 /\ download.delivered < download.length
    BY <2>s DEF DownloadInv
  <2>3. CASE n = 0
    <3>1. download' = [download EXCEPT !.pc = "cut", !.findings = 1]
      BY <2>1, <2>3, <2>i DEF ReadBytes
    <3>2. download' \in DownloadRows
      BY <3>1, <1>f DEF DownloadInv, DownloadRows
    <3>3. /\ download'.pc = "cut" /\ download'.findings = 1
          /\ download'.start = download.start /\ download'.length = download.length
          /\ download'.delivered = download.delivered
      BY <3>1, <2>i, <1>f DEF DownloadInv, DownloadRows
    <3> QED
      BY <3>2, <3>3, <2>i, <1>1, <1>f DEF DownloadInv
  <2>4. CASE n # 0
    <3> DEFINE q == IF download.delivered + n = download.length THEN "sent" ELSE "stream"
               d == download.delivered + n
    <3>1. download' = [download EXCEPT !.delivered = d, !.pc = q]
      BY <2>1, <2>4 DEF ReadBytes
    <3>2. d \in Nat /\ d <= download.length /\ q = IF d = download.length THEN "sent" ELSE "stream"
      BY <2>2, <2>4, <1>f
    <3> HIDE DEF d, q
    <3>3. q \in {"sent", "stream"}
      BY <3>2
    <3>4. download' \in DownloadRows
      BY <3>1, <3>2, <3>3, <1>f DEF DownloadInv, DownloadRows
    <3>5. /\ download'.pc = q /\ download'.delivered = d
          /\ download'.start = download.start /\ download'.length = download.length
          /\ download'.findings = download.findings
      BY <3>1 DEF DownloadInv, DownloadRows
    <3> QED
      BY <3>2, <3>3, <3>4, <3>5, <2>i, <1>1, <1>f DEF DownloadInv
  <2> QED
    BY <2>3, <2>4
<1>5. CASE \E n \in {0, FileSize - 1} : BlobShrinks(n)
  <2>1. PICK n \in {0, FileSize - 1} : BlobShrinks(n)
    BY <1>5
  <2>2. n \in Nat /\ download' = [download EXCEPT !.blob = n]
    BY <2>1, <1>1 DEF BlobShrinks
  <2> QED
    BY <2>2, <1>f DEF DownloadInv, DownloadRows
<1> QED
  BY <1>2, <1>3, <1>4, <1>5 DEF DownloadNext

-----------------------------------------------------------------------------
(* Pages.                                                                  *)

LEMMA RowCountNat == RowCount \in Nat
BY ReadsAssumption, FS_CardinalityType DEF RowCount

\* Rows differ in a part of the sort key.
LEMMA KeysTotal ==
    ASSUME NEW a \in Rows, NEW b \in Rows, a # b
    PROVE  SortKey(a, b) \/ SortKey(b, a)
<1>1. /\ a \in [name : Nat, type : Nat, id : Nat] /\ b \in [name : Nat, type : Nat, id : Nat]
  BY ReadsAssumption
<1>2. a.name # b.name \/ a.type # b.type \/ a.id # b.id
  BY <1>1
<1> QED
  BY <1>1, <1>2 DEF SortKey

\* An ordering has all rows.
LEMMA SortedSeq ==
    ASSUME NEW s \in Sorted
    PROVE  /\ s \in [1..RowCount -> Rows]
           /\ \A i, j \in 1..RowCount : i # j => s[i] # s[j]
           /\ \A i, j \in 1..RowCount : SortKey(s[i], s[j]) => i < j
           /\ \A r \in Rows : \E i \in 1..RowCount : s[i] = r
<1>1. /\ s \in [1..RowCount -> Rows]
      /\ \A i, j \in 1..RowCount : i # j => s[i] # s[j]
  BY DEF Sorted, SetToSeqs, RowCount
<1>2. \A i, j \in 1..RowCount : SortKey(s[i], s[j]) => i < j
  BY <1>1 DEF Sorted
<1>3. s \in Injection(1..RowCount, Rows)
  BY <1>1 DEF Injection, IsInjective
<1>4. Cardinality(1..RowCount) = RowCount
  BY RowCountNat, FS_Interval
<1>5. s \in Surjection(1..RowCount, Rows)
  BY <1>3, <1>4, ReadsAssumption, FS_Injection DEF RowCount
<1>6. \A r \in Rows : \E i \in 1..RowCount : s[i] = r
  BY <1>5 DEF Surjection
<1> QED
  BY <1>1, <1>2, <1>6

\* The key leaves one order.
LEMMA OneOrder ==
    ASSUME NEW s \in Sorted, NEW t \in Sorted
    PROVE  s = t
<1> DEFINE D == {i \in 1..RowCount : s[i] # t[i]}
<1>n. RowCount \in Nat
  BY RowCountNat
<1>s. /\ s \in [1..RowCount -> Rows]
      /\ \A i, j \in 1..RowCount : i # j => s[i] # s[j]
      /\ \A i, j \in 1..RowCount : SortKey(s[i], s[j]) => i < j
      /\ \A r \in Rows : \E i \in 1..RowCount : s[i] = r
  BY SortedSeq
<1>t. /\ t \in [1..RowCount -> Rows]
      /\ \A i, j \in 1..RowCount : i # j => t[i] # t[j]
      /\ \A i, j \in 1..RowCount : SortKey(t[i], t[j]) => i < j
      /\ \A r \in Rows : \E i \in 1..RowCount : t[i] = r
  BY SortedSeq
<1>1. SUFFICES ASSUME D # {} PROVE FALSE
  <2>0. s \in [1..RowCount -> Rows] /\ t \in [1..RowCount -> Rows]
    BY <1>s, <1>t
  <2>1. ASSUME \A i \in 1..RowCount : s[i] = t[i] PROVE s = t
    <3>1. s = [i \in 1..RowCount |-> s[i]] /\ t = [i \in 1..RowCount |-> t[i]]
      BY <2>0
    <3>2. [i \in 1..RowCount |-> s[i]] = [i \in 1..RowCount |-> t[i]]
      BY <2>1
    <3> QED
      BY <3>1, <3>2
  <2>2. D = {} => \A i \in 1..RowCount : s[i] = t[i]
    OBVIOUS
  <2> QED
    BY <2>1, <2>2
<1>2. PICK i \in D : \A j \in D : i <= j
  <2>1. D \subseteq Nat
    BY <1>n
  <2> QED
    BY <2>1, <1>1, LeastNumber
<1>3. i \in 1..RowCount /\ s[i] # t[i] /\ s[i] \in Rows /\ t[i] \in Rows
  BY <1>s, <1>t
<1>4. \A j \in 1..RowCount : j < i => s[j] = t[j]
  BY <1>2, <1>3, <1>n
<1>5. PICK j \in 1..RowCount : t[j] = s[i]
  BY <1>3, <1>t
<1>6. PICK k \in 1..RowCount : s[k] = t[i]
  BY <1>3, <1>s
<1>7. ~(j < i)
  <2>1. j < i => s[j] = s[i]
    BY <1>4, <1>5
  <2> QED
    BY <2>1, <1>s, <1>3, <1>n
<1>8. ~(k < i)
  <2>1. k < i => t[k] = t[i]
    BY <1>4, <1>6
  <2> QED
    BY <2>1, <1>t, <1>3, <1>n
<1>9. SortKey(s[i], t[i]) => j < i
  BY <1>5, <1>t, <1>3
<1>10. SortKey(t[i], s[i]) => k < i
  BY <1>6, <1>s, <1>3
<1> QED
  BY <1>3, <1>7, <1>8, <1>9, <1>10, KeysTotal

\* Pages up to the last begin inside the listing, and there is none behind it.
LEMMA PageBounds ==
    ASSUME NEW n \in Nat \ {0}
    PROVE  /\ Offset(n) \in Nat
           /\ Offset(n + 1) = Offset(n) + PageSize
           /\ n <= TotalPages(RowCount) => Offset(n) < RowCount
           /\ n > TotalPages(RowCount) => Offset(n) >= RowCount
<1>1. PageSize \in Nat \ {0} /\ RowCount \in Nat
  BY ReadsAssumption, RowCountNat
<1> DEFINE q == TotalPages(RowCount)
<1>2. q \in Nat /\ q * PageSize <= RowCount + PageSize - 1 /\ RowCount + PageSize - 1 < q * PageSize + PageSize
  <2> DEFINE a == RowCount + PageSize - 1
  <2>1. a \in Nat
    BY <1>1
  <2> HIDE DEF a
  <2>2. a \div PageSize \in Nat /\ a = PageSize * (a \div PageSize) + (a % PageSize) /\ a % PageSize \in 0..(PageSize - 1)
    BY <2>1, <1>1
  <2>3. (a \div PageSize) * PageSize = PageSize * (a \div PageSize)
    BY <2>2, <1>1
  <2>4. q = a \div PageSize
    BY DEF TotalPages, a
  <2> HIDE DEF q
  <2> QED
    BY <2>1, <2>2, <2>3, <2>4, <1>1 DEF a
<1> HIDE DEF q
<1>3. (n - 1) * PageSize \in Nat /\ n * PageSize = (n - 1) * PageSize + PageSize
  BY <1>1
<1>4. (n + 1 - 1) * PageSize = n * PageSize
  BY <1>1
<1>5. n <= q => n * PageSize <= q * PageSize
  BY <1>1, <1>2
<1>6. n > q => (n - 1) * PageSize >= q * PageSize
  BY <1>1, <1>2
<1>7. q * PageSize \in Nat /\ n * PageSize \in Nat
  BY <1>1, <1>2
<1>8. Offset(n) = (n - 1) * PageSize /\ Offset(n + 1) = n * PageSize
  BY <1>4 DEF Offset
<1> QED
  BY <1>1, <1>2, <1>3, <1>5, <1>6, <1>7, <1>8 DEF q

LEMMA WalkKept ==
    ASSUME WalkInv, NextPage
    PROVE  WalkInv'
<1>1. PageSize \in Nat \ {0} /\ RowCount \in Nat
  BY ReadsAssumption, RowCountNat
<1>2. walk.next \in Nat \ {0} /\ walk.seen \in Seq(Rows)
  BY DEF WalkInv
<1> DEFINE n == walk.next
           o == Offset(n)
           hi == IF o + PageSize < RowCount THEN o + PageSize ELSE RowCount
<1>3. PICK s \in Sorted : walk' = [next |-> n + 1, seen |-> walk.seen \o PageOf(s, n)]
  BY DEF NextPage
<1>4. o \in Nat /\ Offset(n + 1) = o + PageSize /\ o < RowCount
  <2>1. n <= TotalPages(RowCount)
    BY DEF NextPage, RowCount
  <2> QED
    BY <2>1, <1>2, PageBounds
<1>5. s \in [1..RowCount -> Rows] /\ s \in Seq(Rows) /\ Len(s) = RowCount
  BY <1>1, SortedSeq
<1>6. Len(walk.seen) = o /\ \A i \in 1..o : walk.seen[i] = s[i]
  BY <1>4 DEF WalkInv
<1> DEFINE p == PageOf(s, n)
<1>7. p = SubSeq(s, o + 1, hi)
  BY <1>5 DEF PageOf
<1>8. hi \in Nat /\ o < hi /\ hi <= RowCount
  BY <1>1, <1>4
<1> HIDE DEF p, hi, o, n
<1>9. p \in Seq(Rows) /\ Len(p) = hi - o /\ \A i \in 1..(hi - o) : p[i] = s[o + i]
  BY <1>1, <1>4, <1>5, <1>7, <1>8
<1> DEFINE seen == walk.seen \o p
<1>10. seen \in Seq(Rows) /\ Len(seen) = hi
  <2>1. seen \in Seq(Rows) /\ Len(seen) = Len(walk.seen) + Len(p)
    BY <1>2, <1>9
  <2> QED
    BY <2>1, <1>4, <1>6, <1>8, <1>9
<1>11. \A i \in 1..hi : seen[i] = s[i]
  <2> SUFFICES ASSUME NEW i \in 1..hi PROVE seen[i] = s[i]
    OBVIOUS
  <2>1. CASE i <= o
    BY <2>1, <1>2, <1>4, <1>6, <1>8, <1>9
  <2>2. CASE ~(i <= o)
    <3>1. i - o \in 1..(hi - o) /\ o + (i - o) = i
      BY <2>2, <1>4, <1>8
    <3>2. seen[i] = p[i - o]
      BY <2>2, <3>1, <1>2, <1>4, <1>6, <1>8, <1>9
    <3> QED
      BY <3>1, <3>2, <1>9
  <2> QED
    BY <2>1, <2>2
<1> HIDE DEF seen
<1>12. walk' = [next |-> n + 1, seen |-> seen] /\ n \in Nat \ {0}
  BY <1>2, <1>3 DEF seen, p, n
<1>13. walk'.next = n + 1 /\ walk'.seen = seen /\ walk' \in [next : Nat \ {0}, seen : Seq(Rows)]
  BY <1>10, <1>12
<1>14. Len(seen) = IF Offset(n + 1) < RowCount THEN Offset(n + 1) ELSE RowCount
  BY <1>1, <1>4, <1>10 DEF hi, o
<1>15. \A t \in Sorted : \A i \in 1..Len(seen) : seen[i] = t[i]
  BY <1>10, <1>11, OneOrder
<1> QED
  BY <1>13, <1>14, <1>15 DEF WalkInv, RowCount, Sorted, Offset

-----------------------------------------------------------------------------
(* The list cache.                                                         *)

LEMMA VersionsFacts ==
    ASSUME ListInv
    PROVE  /\ Cardinality(Mutators) \in Nat
           /\ generation \in Versions
           /\ \A r \in ListerRows : ListerInStep(r) => r.version \in Versions
<1>1. Cardinality(Mutators) \in Nat
  BY ReadsAssumption, FS_CardinalityType
<1>2. Cardinality({m \in Mutators : mutator[m] = -1}) <= Cardinality(Mutators)
      /\ Cardinality({m \in Mutators : mutator[m] = -1}) \in Nat
  <2>1. {m \in Mutators : mutator[m] = -1} \in SUBSET Mutators
    OBVIOUS
  <2> QED
    BY <2>1, ReadsAssumption, FS_Subset, FS_CardinalityType
<1>3. generation \in Nat /\ generation <= Cardinality({m \in Mutators : mutator[m] = -1})
  BY DEF ListInv, ListType, GenerationsCounted
<1>4. generation \in Versions
  BY <1>1, <1>2, <1>3 DEF Versions
<1>5. ASSUME NEW r \in ListerRows, ListerInStep(r)
      PROVE  r.version \in Versions
  BY <1>1, <1>3, <1>4, <1>5 DEF ListerInStep, ListerRows, Versions
<1> QED
  BY <1>1, <1>4, <1>5

LEMMA ListerRow ==
    ASSUME ListInv, NEW l \in Listers
    PROVE  /\ lister[l] \in ListerRows
           /\ ListerInStep(lister[l])
           /\ lister[l].pc \in ListerStates /\ lister[l].version \in Nat
           /\ lister[l].cacheable \in BOOLEAN /\ lister[l].total \in Nat
           /\ lister[l].page \in Nat /\ lister[l].due \in Nat
BY DEF ListInv, ListType, ListerRows

\* One request goes on; it keeps its generation, or takes the present one.
LEMMA ListerMoves ==
    ASSUME ListInv, NEW l \in Listers, NEW r \in ListerRows, ListerInStep(r),
           lister' = [lister EXCEPT ![l] = r],
           r.cacheable => \/ /\ lister[l].cacheable
                             /\ r.version = lister[l].version /\ r.due = lister[l].due
                          \/ r.version = generation /\ r.due = invalidated,
           UNCHANGED <<committed, generation, cached, invalidated, mutator>>
    PROVE  ListInv'
<1>1. lister \in [Listers -> ListerRows]
  BY DEF ListInv, ListType
<1>2. \A k \in Listers : lister'[k] = IF k = l THEN r ELSE lister[k]
  BY <1>1
<1>3. ListType'
  BY <1>1 DEF ListInv, ListType, Versions
<1>4. (GenerationsCounted /\ AnnouncedCommitted /\ PresentPagesFresh)'
  BY DEF ListInv, GenerationsCounted, AnnouncedCommitted, PresentPagesFresh, Versions
<1>5. \A k \in Listers : ListerInStep(lister'[k])
  BY <1>2 DEF ListInv
<1>6. \A k \in Listers : ListerInStep(lister[k])'
  <2> SUFFICES ASSUME NEW k \in Listers PROVE ListerInStep(lister[k])'
    OBVIOUS
  <2>1. ListerInStep(lister'[k])
    BY <1>5
  <2> QED
    BY <2>1 DEF ListerInStep
<1>7. SameGenerationSameDue'
  <2>1. SUFFICES ASSUME NEW k \in Listers, lister[k].cacheable, r.cacheable, k # l,
                        lister[k].version = r.version
                 PROVE  lister[k].due = r.due
    BY <1>2 DEF SameGenerationSameDue, ListInv
  <2>2. CASE lister[l].cacheable /\ r.version = lister[l].version /\ r.due = lister[l].due
    BY <2>1, <2>2 DEF ListInv, SameGenerationSameDue
  <2>3. CASE r.version = generation /\ r.due = invalidated
    BY <2>1, <2>3, ListerRow DEF ListerInStep
  <2> QED
    BY <2>1, <2>2, <2>3
<1> QED
  BY <1>3, <1>4, <1>6, <1>7 DEF ListInv

LEMMA GetVersionKeeps ==
    ASSUME ListInv, NEW l \in Listers, GetVersion(l)
    PROVE  ListInv'
<1>1. /\ lister[l] \in ListerRows /\ ListerInStep(lister[l]) /\ lister[l].pc = "idle"
      /\ lister[l].version \in Nat /\ lister[l].total \in Nat /\ lister[l].page \in Nat
  BY ListerRow DEF GetVersion
<1>2. generation \in Nat /\ invalidated \in Nat /\ generation \in Versions
  BY VersionsFacts DEF ListInv, ListType
<1>3. \A p \in cached[generation] : Fresh(p, invalidated)
  BY DEF ListInv, PresentPagesFresh
<1>4. CASE lister' = [lister EXCEPT ![l] = [@ EXCEPT !.pc = "lookup", !.version = generation,
                                           !.cacheable = TRUE, !.due = invalidated]]
  <2> DEFINE r == [lister[l] EXCEPT !.pc = "lookup", !.version = generation,
                                   !.cacheable = TRUE, !.due = invalidated]
  <2>1. lister' = [lister EXCEPT ![l] = r]
    BY <1>4
  <2>2. r \in ListerRows
    BY <1>1, <1>2 DEF ListerRows, ListerStates
  <2>3. r.pc = "lookup" /\ r.version = generation /\ r.cacheable /\ r.due = invalidated
    BY <1>1 DEF ListerRows
  <2> HIDE DEF r
  <2>4. ListerInStep(r)
    BY <2>3, <1>2, <1>3 DEF ListerInStep
  <2> QED
    BY <2>1, <2>2, <2>3, <2>4, ListerMoves DEF GetVersion
<1>5. CASE lister' = [lister EXCEPT ![l] = [@ EXCEPT !.pc = "count", !.due = invalidated]]
  <2> DEFINE r == [lister[l] EXCEPT !.pc = "count", !.due = invalidated]
  <2>1. lister' = [lister EXCEPT ![l] = r]
    BY <1>5
  <2>2. r \in ListerRows
    BY <1>1, <1>2 DEF ListerRows, ListerStates
  <2>3. r.pc = "count" /\ r.version = lister[l].version /\ ~r.cacheable /\ r.due = invalidated
    BY <1>1 DEF ListerRows, ListerInStep
  <2> HIDE DEF r
  <2>4. ListerInStep(r)
    BY <2>3, <1>1, <1>2 DEF ListerInStep
  <2> QED
    BY <2>1, <2>2, <2>3, <2>4, ListerMoves DEF GetVersion
<1> QED
  BY <1>4, <1>5 DEF GetVersion

LEMMA CacheLookupKeeps ==
    ASSUME ListInv, NEW l \in Listers, CacheLookup(l)
    PROVE  ListInv'
<1>1. /\ lister[l] \in ListerRows /\ ListerInStep(lister[l]) /\ lister[l].pc = "lookup"
      /\ lister[l].cacheable /\ lister[l].due \in Nat
      /\ UNCHANGED <<committed, generation, cached, invalidated, mutator>>
  BY ListerRow DEF CacheLookup, ListerInStep
<1>2. CASE \E p \in cached[lister[l].version] : lister' = [lister EXCEPT ![l] =
                [@ EXCEPT !.pc = "served", !.total = p.total, !.page = p.page, !.hit = TRUE]]
  <2>1. PICK p \in cached[lister[l].version] : lister' = [lister EXCEPT ![l] =
                [@ EXCEPT !.pc = "served", !.total = p.total, !.page = p.page, !.hit = TRUE]]
    BY <1>2
  <2>2. p.total \in Nat /\ p.page \in Nat /\ Fresh(p, lister[l].due)
    <3>1. lister[l].version \in Versions
      BY <1>1, VersionsFacts
    <3>2. p \in ListPages
      BY <2>1, <3>1 DEF ListInv, ListType
    <3> QED
      BY <2>1, <3>2, <1>1 DEF ListPages, ListerInStep
  <2> DEFINE r == [lister[l] EXCEPT !.pc = "served", !.total = p.total, !.page = p.page, !.hit = TRUE]
  <2>3. r \in ListerRows
    BY <1>1, <2>2 DEF ListerRows, ListerStates
  <2>4. /\ r.pc = "served" /\ r.version = lister[l].version /\ r.due = lister[l].due
        /\ r.total = p.total /\ r.page = p.page /\ r.cacheable
    BY <1>1 DEF ListerRows
  <2>5. lister' = [lister EXCEPT ![l] = r]
    BY <2>1
  <2> HIDE DEF r
  <2>6. ListerInStep(r)
    BY <2>2, <2>4, <1>1 DEF ListerInStep, Fresh
  <2> QED
    BY <1>1, <2>3, <2>4, <2>5, <2>6, ListerMoves
<1>3. CASE lister' = [lister EXCEPT ![l].pc = "count"]
  <2> DEFINE r == [lister[l] EXCEPT !.pc = "count"]
  <2>3. r \in ListerRows
    BY <1>1 DEF ListerRows, ListerStates
  <2>4. r.pc = "count" /\ r.version = lister[l].version /\ r.due = lister[l].due /\ r.cacheable
    BY <1>1 DEF ListerRows
  <2>5. lister' = [lister EXCEPT ![l] = r]
    BY <1>3
  <2> HIDE DEF r
  <2>6. ListerInStep(r)
    BY <2>4, <1>1 DEF ListerInStep
  <2> QED
    BY <1>1, <2>3, <2>4, <2>5, <2>6, ListerMoves
<1>4. CASE lister' = [lister EXCEPT ![l].pc = "count", ![l].cacheable = FALSE]
  <2> DEFINE r == [lister[l] EXCEPT !.pc = "count", !.cacheable = FALSE]
  <2>3. r \in ListerRows
    BY <1>1 DEF ListerRows, ListerStates
  <2>4. r.pc = "count" /\ r.version = lister[l].version /\ r.due = lister[l].due /\ ~r.cacheable
    BY <1>1 DEF ListerRows
  <2>5. lister' = [lister EXCEPT ![l] = r]
    BY <1>4, <1>1 DEF ListInv, ListType
  <2> HIDE DEF r
  <2>6. ListerInStep(r)
    BY <2>4, <1>1 DEF ListerInStep
  <2> QED
    BY <1>1, <2>3, <2>4, <2>5, <2>6, ListerMoves
<1> QED
  BY <1>2, <1>3, <1>4 DEF CacheLookup


LEMMA ListQueriesKeep ==
    ASSUME ListInv, NEW l \in Listers, ListCount(l) \/ ListPage(l)
    PROVE  ListInv'
<1>1. /\ lister[l] \in ListerRows /\ ListerInStep(lister[l])
      /\ lister[l].due \in Nat /\ lister[l].cacheable \in BOOLEAN /\ lister[l].total \in Nat
  BY ListerRow
<1>2. UNCHANGED <<committed, generation, cached, invalidated, mutator>>
  BY DEF ListCount, ListPage
<1>3. committed \in Nat /\ lister[l].due <= committed
  BY <1>1 DEF ListInv, ListType, AnnouncedCommitted, ListerInStep
<1>4. CASE ListCount(l)
  <2> DEFINE r == [lister[l] EXCEPT !.pc = "page", !.total = committed]
  <2>1. lister[l].pc = "count" /\ lister' = [lister EXCEPT ![l] = r]
    BY <1>4 DEF ListCount, ListInv, ListType
  <2>2. r \in ListerRows
    BY <1>1, <1>3 DEF ListerRows, ListerStates
  <2>3. /\ r.pc = "page" /\ r.version = lister[l].version /\ r.due = lister[l].due
        /\ r.total = committed /\ r.cacheable = lister[l].cacheable
    BY <1>1 DEF ListerRows
  <2> HIDE DEF r
  <2>4. ListerInStep(r)
    BY <2>3, <1>1, <1>3 DEF ListerInStep
  <2> QED
    BY <1>2, <2>1, <2>2, <2>3, <2>4, ListerMoves
<1>5. CASE ListPage(l)
  <2> DEFINE q == IF lister[l].cacheable THEN "store" ELSE "served"
             r == [lister[l] EXCEPT !.page = committed, !.pc = q]
  <2>1. lister[l].pc = "page" /\ lister' = [lister EXCEPT ![l] = r]
    BY <1>5 DEF ListPage, ListInv, ListType
  <2>2. q \in {"store", "served"} /\ (q = "store" => lister[l].cacheable)
    OBVIOUS
  <2> HIDE DEF q
  <2>3. r \in ListerRows
    BY <1>1, <1>3, <2>2 DEF ListerRows, ListerStates
  <2>4. /\ r.pc = q /\ r.version = lister[l].version /\ r.due = lister[l].due
        /\ r.total = lister[l].total /\ r.page = committed /\ r.cacheable = lister[l].cacheable
    BY <1>1 DEF ListerRows
  <2> HIDE DEF r
  <2>5. ListerInStep(r)
    BY <2>1, <2>2, <2>4, <1>1, <1>3 DEF ListerInStep
  <2> QED
    BY <1>2, <2>1, <2>3, <2>4, <2>5, ListerMoves
<1> QED
  BY <1>4, <1>5

LEMMA ListAnsweredKeeps ==
    ASSUME ListInv, NEW l \in Listers, ListAnswered(l)
    PROVE  ListInv'
<1>1. IdleLister \in ListerRows /\ ~IdleLister.cacheable
  BY DEF IdleLister, ListerRows, ListerStates
<1>2. generation \in Nat /\ invalidated \in Nat
  BY DEF ListInv, ListType
<1>3. ListerInStep(IdleLister)
  BY <1>2 DEF IdleLister, ListerInStep
<1> QED
  BY <1>1, <1>3, ListerMoves DEF ListAnswered

\* Pages come and go under a generation; what a request stores has what its
\* generation announced, and so has what is left.
LEMMA CacheStoreKeeps ==
    ASSUME ListInv, NEW l \in Listers, CacheStore(l)
    PROVE  ListInv'
<1>1. /\ lister[l] \in ListerRows /\ ListerInStep(lister[l]) /\ lister[l].pc = "store"
      /\ lister[l].cacheable /\ lister[l].due \in Nat
      /\ lister[l].total \in Nat /\ lister[l].page \in Nat
      /\ UNCHANGED <<committed, generation, invalidated, mutator>>
  BY ListerRow DEF CacheStore, ListerInStep
<1> DEFINE r == [lister[l] EXCEPT !.pc = "served"]
           v == lister[l].version
           p == [total |-> lister[l].total, page |-> lister[l].page]
<1>2. r \in ListerRows
  BY <1>1 DEF ListerRows, ListerStates
<1>3. /\ r.pc = "served" /\ r.version = v /\ r.due = lister[l].due
      /\ r.total = lister[l].total /\ r.page = lister[l].page /\ r.cacheable
  BY <1>1 DEF ListerRows
<1>4. lister' = [lister EXCEPT ![l] = r]
  BY DEF CacheStore
<1>5. v \in Versions /\ v <= generation
  BY <1>1, VersionsFacts DEF ListerInStep
<1>6. p \in ListPages /\ Fresh(p, lister[l].due)
  BY <1>1 DEF ListPages, Fresh, ListerInStep
<1>7. ListerInStep(r)
  BY <1>1, <1>3 DEF ListerInStep
<1> HIDE DEF r
<1>8. CASE cached' = cached
  BY <1>1, <1>2, <1>3, <1>4, <1>7, <1>8, ListerMoves
<1>9. CASE cached' = [cached EXCEPT ![v] = {p}]
  <2> HIDE DEF p, v
  <2>1. cached \in [Versions -> SUBSET ListPages] /\ lister \in [Listers -> ListerRows]
        /\ generation \in Nat /\ invalidated \in Nat /\ committed \in Nat
    BY DEF ListInv, ListType
  <2>2. \A u \in Versions : cached'[u] = IF u = v THEN {p} ELSE cached[u]
    BY <1>9, <2>1
  <2>3. \A k \in Listers : lister'[k] = IF k = l THEN r ELSE lister[k]
    BY <1>4, <2>1
  <2>4. ListType'
    <3>1. cached' \in [Versions -> SUBSET ListPages]
      BY <1>9, <1>5, <1>6, <2>1
    <3>2. lister' \in [Listers -> ListerRows]
      BY <1>4, <1>2, <2>1
    <3> QED
      BY <3>1, <3>2, <1>1 DEF ListInv, ListType, Versions
  <2>5. (GenerationsCounted /\ AnnouncedCommitted)'
    BY <1>1 DEF ListInv, GenerationsCounted, AnnouncedCommitted
  <2>6. \A k \in Listers : lister[k].cacheable /\ lister[k].version = v => lister[k].due = lister[l].due
    BY <1>1 DEF ListInv, SameGenerationSameDue, v
  <2>7. PresentPagesFresh'
    <3>1. \A u \in Versions : u > generation => cached'[u] = {}
      BY <2>1, <2>2, <1>5 DEF ListInv, PresentPagesFresh, Versions
    <3>2. v = generation => lister[l].due = invalidated
      BY <1>1 DEF ListerInStep, v
    <3>3. generation \in Versions
      BY VersionsFacts
    <3>4. \A q \in cached'[generation] : Fresh(q, invalidated)
      BY <3>2, <3>3, <2>2, <1>6 DEF ListInv, PresentPagesFresh
    <3> QED
      BY <3>1, <3>4, <1>1 DEF PresentPagesFresh, Versions
  <2>8. ASSUME NEW k \in Listers PROVE ListerInStep(lister[k])'
    <3>1. CASE k = l
      <4>1. lister'[k] = r /\ cached'[v] = {p}
        BY <3>1, <2>2, <2>3, <1>5
      <4>2. r.version <= generation /\ r.due <= invalidated /\ r.total >= r.due /\ r.page >= r.due
            /\ (r.version = generation => r.due = invalidated)
        BY <1>3, <1>7 DEF ListerInStep
      <4> QED
        BY <4>1, <4>2, <1>1, <1>3, <1>6 DEF ListerInStep
    <3>2. CASE k # l
      <4>1. lister'[k] = lister[k] /\ ListerInStep(lister[k]) /\ lister[k].version \in Versions
        BY <3>2, <2>3, ListerRow, VersionsFacts
      <4>2. lister[k].cacheable => \A q \in cached'[lister[k].version] : Fresh(q, lister[k].due)
        <5>1. CASE lister[k].version = v
          BY <5>1, <4>1, <2>2, <2>6, <1>6
        <5>2. CASE lister[k].version # v
          BY <5>2, <4>1, <2>2 DEF ListerInStep
        <5> QED
          BY <5>1, <5>2
      <4> QED
        BY <4>1, <4>2, <1>1 DEF ListerInStep
    <3> QED
      BY <3>1, <3>2
  <2>9. SameGenerationSameDue'
    BY <2>3, <2>6, <1>3 DEF ListInv, SameGenerationSameDue
  <2> QED
    BY <2>4, <2>5, <2>7, <2>8, <2>9 DEF ListInv
<1> QED
  BY <1>8, <1>9 DEF CacheStore, StoreKey

LEMMA EntryExpiresKeeps ==
    ASSUME ListInv, NEW v \in Versions, EntryExpires(v)
    PROVE  ListInv'
<1>1. /\ cached' = [cached EXCEPT ![v] = {}]
      /\ UNCHANGED <<committed, generation, invalidated, lister, mutator>>
  BY DEF EntryExpires
<1>2. cached \in [Versions -> SUBSET ListPages] /\ generation \in Versions
  BY VersionsFacts DEF ListInv, ListType
<1>3. \A u \in Versions : cached'[u] \subseteq cached[u]
  BY <1>1, <1>2
<1>4. ListType'
  BY <1>1, <1>2 DEF ListInv, ListType, Versions
<1>5. (GenerationsCounted /\ AnnouncedCommitted /\ SameGenerationSameDue)'
  BY <1>1 DEF ListInv, GenerationsCounted, AnnouncedCommitted, SameGenerationSameDue
<1>6. PresentPagesFresh'
  BY <1>1, <1>2, <1>3 DEF ListInv, PresentPagesFresh, Versions
<1>7. ASSUME NEW k \in Listers PROVE ListerInStep(lister[k])'
  <2>1. ListerInStep(lister[k]) /\ lister[k].version \in Versions
    BY ListerRow, VersionsFacts
  <2>2. lister[k].cacheable => \A q \in cached'[lister[k].version] : Fresh(q, lister[k].due)
    BY <2>1, <1>3 DEF ListerInStep
  <2> QED
    BY <2>1, <2>2, <1>1 DEF ListerInStep
<1> QED
  BY <1>4, <1>5, <1>6, <1>7 DEF ListInv

LEMMA MutationCommitsKeeps ==
    ASSUME ListInv, NEW m \in Mutators, MutationCommits(m)
    PROVE  ListInv'
<1>1. /\ mutator[m] = 0 /\ committed' = committed + 1
      /\ mutator' = [mutator EXCEPT ![m] = committed + 1]
      /\ UNCHANGED <<generation, cached, invalidated, lister>>
  BY DEF MutationCommits
<1>2. committed \in Nat /\ invalidated \in Nat /\ mutator \in [Mutators -> Int]
  BY DEF ListInv, ListType
<1>3. ListType'
  BY <1>1, <1>2 DEF ListInv, ListType, Versions
<1>4. GenerationsCounted'
  <2>1. {n \in Mutators : mutator'[n] = -1} = {n \in Mutators : mutator[n] = -1}
    BY <1>1, <1>2
  <2> QED
    BY <2>1, <1>1 DEF ListInv, GenerationsCounted
<1>5. AnnouncedCommitted'
  BY <1>1, <1>2 DEF ListInv, AnnouncedCommitted
<1>6. (PresentPagesFresh /\ SameGenerationSameDue)'
  BY <1>1 DEF ListInv, PresentPagesFresh, SameGenerationSameDue, Versions
<1>7. \A k \in Listers : ListerInStep(lister[k])'
  BY <1>1 DEF ListInv, ListerInStep
<1> QED
  BY <1>3, <1>4, <1>5, <1>6, <1>7 DEF ListInv

\* A new generation begins empty; whoever holds an older one keeps to it.
LEMMA InvalidateKeeps ==
    ASSUME ListInv, NEW m \in Mutators, Invalidate(m)
    PROVE  ListInv'
<1>1. /\ mutator[m] > 0
      /\ mutator' = [mutator EXCEPT ![m] = -1]
      /\ UNCHANGED <<committed, cached, lister>>
  BY DEF Invalidate
<1>2. /\ committed \in Nat /\ invalidated \in Nat /\ generation \in Nat
      /\ mutator \in [Mutators -> Int] /\ mutator[m] \in Int
  BY DEF ListInv, ListType
<1> DEFINE over == {n \in Mutators : mutator[n] = -1}
<1>3. {n \in Mutators : mutator'[n] = -1} = over \cup {m} /\ m \notin over
  BY <1>1, <1>2
<1>4. Cardinality(over \cup {m}) = Cardinality(over) + 1 /\ Cardinality(over) \in Nat
      /\ Cardinality(over \cup {m}) \in Nat /\ Cardinality(over \cup {m}) <= Cardinality(Mutators)
      /\ Cardinality(Mutators) \in Nat
  <2>1. over \in SUBSET Mutators /\ over \cup {m} \in SUBSET Mutators
    OBVIOUS
  <2>2. IsFiniteSet(over) /\ IsFiniteSet(over \cup {m})
    BY <2>1, ReadsAssumption, FS_Subset
  <2> QED
    BY <2>1, <2>2, <1>3, ReadsAssumption, FS_Subset, FS_CardinalityType, FS_AddElement
<1>5. generation <= Cardinality(over)
  BY DEF ListInv, GenerationsCounted
<1> HIDE DEF over
<1>6. mutator' \in [Mutators -> Int] /\ \A n \in Mutators : mutator'[n] <= committed
  BY <1>1, <1>2 DEF ListInv, AnnouncedCommitted
<1>7. CASE generation' = generation + 1
           /\ invalidated' = IF mutator[m] > invalidated THEN mutator[m] ELSE invalidated
  <2>1. invalidated' \in Nat /\ invalidated' <= committed /\ invalidated <= invalidated'
    BY <1>1, <1>2, <1>7 DEF ListInv, AnnouncedCommitted
  <2>2. ListType'
    BY <2>1, <1>1, <1>2, <1>6, <1>7 DEF ListInv, ListType, Versions
  <2>3. (GenerationsCounted /\ AnnouncedCommitted)'
    BY <2>1, <1>1, <1>2, <1>3, <1>4, <1>5, <1>6, <1>7 DEF GenerationsCounted, AnnouncedCommitted
  <2>4. generation + 1 \in Versions
    BY <1>2, <1>4, <1>5 DEF Versions
  <2>5. PresentPagesFresh'
    <3>1. \A v \in Versions : v > generation => cached[v] = {}
      BY DEF ListInv, PresentPagesFresh
    <3>2. \A v \in Versions : v > generation + 1 => v > generation
      BY <1>2 DEF Versions
    <3>3. cached[generation + 1] = {}
      BY <2>4, <3>1, <1>2
    <3> QED
      BY <3>1, <3>2, <3>3, <1>1, <1>7 DEF PresentPagesFresh, Versions
  <2>6. ASSUME NEW k \in Listers PROVE ListerInStep(lister[k])'
    <3>1. ListerInStep(lister[k]) /\ lister[k].version \in Nat /\ lister[k].due \in Nat
      BY ListerRow
    <3>2. /\ lister[k].version <= generation + 1 /\ lister[k].version # generation + 1
          /\ lister[k].due <= invalidated'
      BY <3>1, <2>1, <1>2 DEF ListerInStep
    <3> QED
      BY <3>1, <3>2, <1>1, <1>7 DEF ListerInStep
  <2>7. SameGenerationSameDue'
    BY <1>1 DEF ListInv, SameGenerationSameDue
  <2> QED
    BY <2>2, <2>3, <2>5, <2>6, <2>7 DEF ListInv
<1>8. CASE UNCHANGED <<generation, invalidated>>
  <2>1. ListType'
    BY <1>1, <1>6, <1>8 DEF ListInv, ListType, Versions
  <2>2. (GenerationsCounted /\ AnnouncedCommitted)'
    <3>1. generation <= Cardinality(over \cup {m})
      BY <1>2, <1>4, <1>5
    <3>2. GenerationsCounted'
      BY <3>1, <1>3, <1>8 DEF GenerationsCounted
    <3> QED
      BY <3>2, <1>1, <1>6, <1>8 DEF ListInv, AnnouncedCommitted
  <2>3. (PresentPagesFresh /\ SameGenerationSameDue)'
    BY <1>1, <1>8 DEF ListInv, PresentPagesFresh, SameGenerationSameDue, Versions
  <2>4. \A k \in Listers : ListerInStep(lister[k])'
    BY <1>1, <1>8 DEF ListInv, ListerInStep
  <2> QED
    BY <2>1, <2>2, <2>3, <2>4 DEF ListInv
<1> QED
  BY <1>7, <1>8 DEF Invalidate

LEMMA ListUntouched ==
    ASSUME ListInv, UNCHANGED listVars
    PROVE  ListInv'
BY DEF ListInv, ListType, GenerationsCounted, AnnouncedCommitted, PresentPagesFresh,
       ListerInStep, SameGenerationSameDue, listVars, Versions

LEMMA ListKept ==
    ASSUME ListInv, ListNext
    PROVE  ListInv'
BY GetVersionKeeps, CacheLookupKeeps, ListQueriesKeep, CacheStoreKeeps, ListAnsweredKeeps,
   EntryExpiresKeeps, MutationCommitsKeeps, InvalidateKeeps DEF ListNext

-----------------------------------------------------------------------------
(* The theorem.                                                            *)

LEMMA ReadsStart ==
    ASSUME ReadsInit
    PROVE  ReadsInv
<1>1. ListInv
  <2>1. Cardinality(Mutators) \in Nat /\ 0 \in Versions
    BY ReadsAssumption, FS_CardinalityType DEF Versions
  <2>2. {m \in Mutators : mutator[m] = -1} = {}
    BY DEF ReadsInit
  <2>3. GenerationsCounted
    <3>1. Cardinality({m \in Mutators : mutator[m] = -1}) = 0
      BY <2>2, FS_EmptySet
    <3> QED
      BY <3>1 DEF ReadsInit, GenerationsCounted
  <2>4. ListType
    BY DEF ReadsInit, ListType, ListPages, ListerRows, ListerStates, IdleLister
  <2>5. AnnouncedCommitted /\ PresentPagesFresh
    BY <2>1 DEF ReadsInit, AnnouncedCommitted, PresentPagesFresh
  <2>6. \A l \in Listers : ListerInStep(lister[l]) /\ ~lister[l].cacheable
    BY DEF ReadsInit, ListerInStep, IdleLister
  <2> QED
    BY <2>3, <2>4, <2>5, <2>6 DEF ListInv, SameGenerationSameDue
<1>2. DownloadInv
  BY ReadsAssumption DEF ReadsInit, IdleDownload, DownloadInv, DownloadRows
<1>3. WalkInv
  <2>1. walk.next = 1 /\ walk.seen = <<>> /\ walk \in [next : Nat \ {0}, seen : Seq(Rows)]
    BY DEF ReadsInit
  <2>2. PageSize \in Nat /\ RowCount \in Nat
    BY ReadsAssumption, RowCountNat
  <2>3. Offset(1) = 0
    BY <2>2 DEF Offset
  <2> QED
    BY <2>1, <2>2, <2>3 DEF WalkInv
<1> QED
  BY <1>1, <1>2, <1>3 DEF ReadsInv

LEMMA ReadsStep ==
    ASSUME ReadsInv, [ListNext \/ NextPage \/ DownloadNext]_readVars
    PROVE  ReadsInv'
<1>1. CASE ListNext
  <2>1. walk' = walk /\ download' = download
    BY <1>1 DEF ListNext, GetVersion, CacheLookup, ListCount, ListPage, CacheStore, ListAnswered,
                EntryExpires, MutationCommits, Invalidate
  <2> QED
    BY <1>1, <2>1, ListKept DEF ReadsInv, WalkInv, DownloadInv
<1>2. CASE NextPage
  BY <1>2, WalkKept, ListUntouched DEF NextPage, ReadsInv, DownloadInv
<1>3. CASE DownloadNext
  <2>1. walk' = walk /\ UNCHANGED listVars
    BY <1>3 DEF DownloadNext, DownloadStart, DownloadOpen, StreamRead, BlobShrinks
  <2> QED
    BY <1>3, <2>1, DownloadKept, ListUntouched DEF ReadsInv, WalkInv
<1>4. CASE UNCHANGED readVars
  BY <1>4, ListUntouched DEF readVars, ReadsInv, WalkInv, DownloadInv
<1> QED
  BY <1>1, <1>2, <1>3, <1>4

LEMMA ReadsMeans ==
    ASSUME ReadsInv
    PROVE  ReadsFaithful
<1>1. ServedFresh
  BY DEF ReadsInv, ListInv, ListerInStep, ServedFresh
<1>2. DownloadAccounted
  BY DEF ReadsInv, DownloadInv, DownloadAccounted
<1>3. PagesCoverListing
  <2>1. SUFFICES ASSUME walk.next > TotalPages(RowCount)
                 PROVE  Len(walk.seen) = RowCount /\ ToSet(walk.seen) = Rows
    BY DEF PagesCoverListing, TotalPages, RowCount
  <2>2. walk.next \in Nat \ {0} /\ walk.seen \in Seq(Rows) /\ RowCount \in Nat
    BY RowCountNat DEF ReadsInv, WalkInv
  <2>3. Offset(walk.next) \in Nat /\ Offset(walk.next) >= RowCount
    BY <2>1, <2>2, PageBounds
  <2>4. Len(walk.seen) = RowCount
    BY <2>2, <2>3 DEF ReadsInv, WalkInv
  <2>5. ToSet(walk.seen) = {walk.seen[i] : i \in 1..RowCount}
    BY <2>2, <2>4 DEF ToSet
  <2>6. CASE walk.next > 1
    <3>1. PICK s \in Sorted : TRUE
      BY <2>6 DEF ReadsInv, WalkInv
    <3>2. \A i \in 1..RowCount : walk.seen[i] = s[i]
      BY <2>4 DEF ReadsInv, WalkInv
    <3>3. \A r \in Rows : \E i \in 1..RowCount : s[i] = r
      BY SortedSeq
    <3>4. \A i \in 1..RowCount : s[i] \in Rows
      BY SortedSeq
    <3> QED
      BY <2>4, <2>5, <3>2, <3>3, <3>4
  <2>7. CASE walk.next = 1
    <3>1. Offset(1) = 0
      BY ReadsAssumption DEF Offset
    <3>2. RowCount = 0
      BY <2>2, <2>3, <2>7, <3>1
    <3>3. Rows = {}
      BY <3>2, ReadsAssumption, FS_EmptySet DEF RowCount
    <3> QED
      BY <2>4, <2>5, <3>2, <3>3
  <2> QED
    BY <2>2, <2>6, <2>7
<1> QED
  BY <1>1, <1>2, <1>3 DEF ReadsFaithful

\* Lists are fresh, pages have neither gaps nor repetitions, and a download has
\* the length it announced or leaves a finding, for any number of requests
\* and any listing (GetFileList, FileListQuery, BuildDownloadResponse).
THEOREM ReadsFaithfulHolds == ReadsSpec => []ReadsFaithful
<1>1. ReadsInit => ReadsInv
  BY ReadsStart
<1>2. ReadsInv /\ [ListNext \/ NextPage \/ DownloadNext]_readVars => ReadsInv'
  BY ReadsStep
<1>3. ReadsInv => ReadsFaithful
  BY ReadsMeans
<1> QED
  BY <1>1, <1>2, <1>3, PTL DEF ReadsSpec

-----------------------------------------------------------------------------
(* Folders: subtrees of a table of rows.                                   *)

LiveIn(rows)      == {d \in FolderIds : rows[d].st = "live"}
ClosedIn(rows, s) == \A d \in LiveIn(rows) : rows[d].parent \in s => d \in s
SubtreeIn(rows, e) ==
    {d \in LiveIn(rows) :
        \A s \in SUBSET LiveIn(rows) : {e} \cap LiveIn(rows) \subseteq s /\ ClosedIn(rows, s) => d \in s}
TopsIn(rows, ids) == {d \in ids \cap LiveIn(rows) : ~\E e \in ids \ {d} : d \in SubtreeIn(rows, e)}

\* The queries are these, of the rows as they are.
LEMMA QueriesAreIn ==
    /\ LiveFolders = LiveIn(folders)
    /\ \A s : ClosedBelow(s) <=> ClosedIn(folders, s)
    /\ \A e : FetchFolderSubtree(e) = SubtreeIn(folders, e)
    /\ \A ids : FilterCoveredFolderIds(ids) = TopsIn(folders, ids)
<1>1. LiveFolders = LiveIn(folders)
  BY DEF LiveFolders, LiveIn
<1>2. \A s : ClosedBelow(s) <=> ClosedIn(folders, s)
  BY <1>1 DEF ClosedBelow, ClosedIn
<1>3. ASSUME NEW e PROVE FetchFolderSubtree(e) = SubtreeIn(folders, e)
  BY <1>1, <1>2 DEF FetchFolderSubtree, SubtreeIn
<1>4. ASSUME NEW ids PROVE FilterCoveredFolderIds(ids) = TopsIn(folders, ids)
  BY <1>1, <1>3 DEF FilterCoveredFolderIds, TopsIn
<1> QED
  BY <1>1, <1>2, <1>3, <1>4

\* A subtree is the least set with its root and the children of its members.
LEMMA SubtreeLeast ==
    ASSUME NEW rows, NEW e
    PROVE  /\ SubtreeIn(rows, e) \subseteq LiveIn(rows) /\ ClosedIn(rows, SubtreeIn(rows, e))
           /\ e \in LiveIn(rows) => e \in SubtreeIn(rows, e)
           /\ e \notin LiveIn(rows) => SubtreeIn(rows, e) = {}
           /\ \A s \in SUBSET LiveIn(rows) :
                 e \in s /\ ClosedIn(rows, s) => SubtreeIn(rows, e) \subseteq s
<1> DEFINE Sub == SubtreeIn(rows, e)
<1>1. Sub \subseteq LiveIn(rows) /\ (e \in LiveIn(rows) => e \in Sub)
  BY DEF SubtreeIn
<1>2. ClosedIn(rows, Sub)
  <2> SUFFICES ASSUME NEW d \in LiveIn(rows), rows[d].parent \in Sub,
                      NEW s \in SUBSET LiveIn(rows), {e} \cap LiveIn(rows) \subseteq s, ClosedIn(rows, s)
               PROVE  d \in s
    BY DEF ClosedIn, SubtreeIn
  <2>1. rows[d].parent \in s
    BY DEF SubtreeIn
  <2> QED
    BY <2>1 DEF ClosedIn
<1>3. \A s \in SUBSET LiveIn(rows) : e \in s /\ ClosedIn(rows, s) => Sub \subseteq s
  BY DEF SubtreeIn
<1>4. e \notin LiveIn(rows) => Sub = {}
  <2>1. \A d \in {} : d \in LiveIn(rows)
    OBVIOUS
  <2>2. {} \in SUBSET LiveIn(rows) /\ ClosedIn(rows, {})
    BY DEF ClosedIn
  <2>3. e \notin LiveIn(rows) => {e} \cap LiveIn(rows) \subseteq {}
    OBVIOUS
  <2> QED
    BY <2>2, <2>3 DEF SubtreeIn
<1> QED
  BY <1>1, <1>2, <1>3, <1>4

\* Whatever is in a subtree and is not its root has its parent there.
LEMMA SubtreeParent ==
    ASSUME NEW rows, NEW e, NEW d \in SubtreeIn(rows, e), d # e
    PROVE  rows[d].parent \in SubtreeIn(rows, e)
<1> DEFINE Sub == SubtreeIn(rows, e)
           Others == Sub \ {d}
<1> SUFFICES ASSUME rows[d].parent \notin Sub PROVE FALSE
  OBVIOUS
<1>1. e \in LiveIn(rows)
  BY SubtreeLeast
<1>2. Others \in SUBSET LiveIn(rows) /\ e \in Others
  BY <1>1, SubtreeLeast
<1>3. ClosedIn(rows, Others)
  <2> SUFFICES ASSUME NEW c \in LiveIn(rows), rows[c].parent \in Others PROVE c \in Others
    BY DEF ClosedIn
  <2>1. c \in Sub
    BY SubtreeLeast DEF ClosedIn
  <2> QED
    BY <2>1
<1>4. Sub \subseteq Others
  BY <1>2, <1>3, SubtreeLeast
<1> QED
  BY <1>4

\* A subtree has the subtrees of its members.
LEMMA SubtreeNested ==
    ASSUME NEW rows, NEW e, NEW d \in SubtreeIn(rows, e)
    PROVE  SubtreeIn(rows, d) \subseteq SubtreeIn(rows, e)
BY SubtreeLeast

\* Two tables that agree on a set that is closed in both have the same
\* subtrees in it.
LEMMA SubtreeFrozenHalf ==
    ASSUME NEW rows, NEW next, NEW plan, NEW e \in plan,
           plan \subseteq LiveIn(rows), plan \subseteq LiveIn(next),
           ClosedIn(rows, plan), ClosedIn(next, plan),
           \A d \in plan : next[d].parent = rows[d].parent
    PROVE  SubtreeIn(rows, e) \subseteq SubtreeIn(next, e) /\ SubtreeIn(rows, e) \subseteq plan
<1> DEFINE Sub == SubtreeIn(next, e)
           Both == Sub \cap plan
<1>1. Both \in SUBSET LiveIn(rows) /\ e \in Both
  BY SubtreeLeast
<1>2. ClosedIn(rows, Both)
  <2> SUFFICES ASSUME NEW d \in LiveIn(rows), rows[d].parent \in Both PROVE d \in Both
    BY DEF ClosedIn
  <2>1. d \in plan
    BY DEF ClosedIn
  <2>2. d \in LiveIn(next) /\ next[d].parent \in Sub
    BY <2>1
  <2> QED
    BY <2>1, <2>2, SubtreeLeast DEF ClosedIn
<1> QED
  BY <1>1, <1>2, SubtreeLeast

LEMMA SubtreeFrozen ==
    ASSUME NEW rows, NEW next, NEW plan, NEW ids,
           plan \subseteq LiveIn(rows), plan \subseteq LiveIn(next),
           ClosedIn(rows, plan), ClosedIn(next, plan),
           \A d \in plan : next[d].parent = rows[d].parent,
           ids \cap LiveIn(rows) \subseteq plan, ids \cap LiveIn(next) \subseteq plan
    PROVE  TopsIn(next, ids) = TopsIn(rows, ids)
<1>1. \A e \in plan : SubtreeIn(rows, e) = SubtreeIn(next, e)
  BY SubtreeFrozenHalf
<1>2. \A e \in ids : e \notin plan => SubtreeIn(rows, e) = {} /\ SubtreeIn(next, e) = {}
  BY SubtreeLeast
<1>3. \A e \in ids : SubtreeIn(rows, e) = SubtreeIn(next, e)
  BY <1>1, <1>2
<1>4. ids \cap LiveIn(rows) = ids \cap LiveIn(next)
  OBVIOUS
<1> QED
  BY <1>3, <1>4 DEF TopsIn

\* A finite set has more elements than its proper subsets.
LEMMA StrictlyFewer ==
    ASSUME NEW S, NEW T, IsFiniteSet(S), T \subseteq S, T # S
    PROVE  Cardinality(T) < Cardinality(S)
<1>1. T \in SUBSET S
  OBVIOUS
<1>2. IsFiniteSet(T) /\ Cardinality(T) <= Cardinality(S) /\ (Cardinality(S) = Cardinality(T) => S = T)
  BY <1>1, FS_Subset
<1>3. Cardinality(T) \in Nat /\ Cardinality(S) \in Nat
  BY <1>2, FS_CardinalityType
<1> QED
  BY <1>2, <1>3

\* When no requested folder is its own ancestor, every requested folder is in
\* the subtree of one that no other contains: of the folders whose subtree has
\* it, take one that is in the fewest subtrees.
LEMMA TopsCover ==
    ASSUME NEW rows, NEW ids \in SUBSET FolderIds,
           \A d \in ids \cap LiveIn(rows) : rows[d].parent \notin SubtreeIn(rows, d),
           NEW e \in ids \cap LiveIn(rows)
    PROVE  \E t \in TopsIn(rows, ids) : e \in SubtreeIn(rows, t)
<1> DEFINE Wanted == ids \cap LiveIn(rows)
           Above(x) == {y \in Wanted : x \in SubtreeIn(rows, y)}
           Sizes == {n \in Nat : \E x \in Above(e) : Cardinality(Above(x)) = n}
<1>1. \A x : IsFiniteSet(Above(x)) /\ Cardinality(Above(x)) \in Nat
  <2>1. \A x : Above(x) \in SUBSET FolderIds
    OBVIOUS
  <2> QED
    BY <2>1, FolderIdAssumption, FS_Subset, FS_CardinalityType
<1>2. e \in Above(e)
  BY SubtreeLeast
<1>3. Sizes # {} /\ Sizes \in SUBSET Nat
  BY <1>1, <1>2
<1>4. PICK n \in Sizes : \A m \in Sizes : n <= m
  BY <1>3, LeastNumber
<1>5. PICK x \in Above(e) : Cardinality(Above(x)) = n
  OBVIOUS
<1>6. ASSUME NEW y \in ids \ {x}, x \in SubtreeIn(rows, y) PROVE FALSE
  <2>1. y \in Wanted
    BY <1>6, SubtreeLeast
  <2>2. y \in Above(e)
    BY <1>6, <2>1, SubtreeNested
  <2>3. Above(y) \subseteq Above(x)
    BY <1>6, SubtreeNested
  <2>4. x \in Above(x)
    BY SubtreeLeast
  <2>5. x \notin Above(y)
    <3> SUFFICES ASSUME y \in SubtreeIn(rows, x) PROVE FALSE
      OBVIOUS
    <3>1. rows[x].parent \in SubtreeIn(rows, y)
      BY <1>6, SubtreeParent
    <3>2. rows[x].parent \in SubtreeIn(rows, x)
      BY <3>1, SubtreeNested
    <3> QED
      BY <3>2
  <2>6. Cardinality(Above(y)) < Cardinality(Above(x))
    <3>1. Above(y) \subseteq Above(x) /\ Above(y) # Above(x)
      BY <2>3, <2>4, <2>5
    <3> HIDE DEF Above
    <3> QED
      BY <3>1, <1>1, StrictlyFewer
  <2>7. Cardinality(Above(y)) \in Sizes
    BY <2>2, <1>1
  <2> HIDE DEF Sizes, Above
  <2> QED
    BY <2>6, <2>7, <1>1, <1>4, <1>5
<1> QED
  BY <1>5, <1>6 DEF TopsIn

-----------------------------------------------------------------------------
(* Folders: the inductive invariant.                                       *)

TreeSteps == {"idle", "counting", "lock", "plan", "commit", "discover", "stabilize", "delete", "done"}
TreeRequest ==
    [pc : TreeSteps, files : SUBSET FileIds, folders : SUBSET FolderIds, target : Parents,
     plan : SUBSET FolderIds, found : SUBSET FileIds]

TreeTyped ==
    /\ folders \in [FolderIds -> FolderRow] /\ files \in [FileIds -> FileRow]
    /\ rowLock \in [FolderIds -> Requests \cup {NoRequest}]
    /\ treq \in [Requests -> TreeRequest]

\* A file that is there, or is about to be, names a folder that was there.
FolderKnown ==
    \A f \in FileIds : files[f].st \in {"pending", "live"} =>
        files[f].folder = Root \/ folders[files[f].folder].st # "free"

AskedKnown(r) == \A d \in treq[r].folders : folders[d].st # "free"

\* An upload between its insert and its count.
CountingOwn(r) ==
    treq[r].pc = "counting" =>
        \E f \in FileIds : /\ treq[r].files = {f} /\ files[f].st = "pending" /\ f \in uploaded
                           /\ files[f].folder = treq[r].target
CountingApart ==
    \A r, s \in Requests :
        treq[r].pc = "counting" /\ treq[s].pc = "counting" /\ r # s => treq[r].files \cap treq[s].files = {}

MovePlanned(r) == treq[r].pc = "commit" => treq[r].folders \subseteq treq[r].plan

\* A deletion that has locked all it has read: that is all there is below the
\* requested folders, and only the topmost of these have a parent outside.
DeletionReady(r) ==
    treq[r].pc = "delete" =>
        /\ \A d \in treq[r].plan : folders[d].st = "live" /\ rowLock[d] = r
        /\ ClosedIn(folders, treq[r].plan)
        /\ \A f \in FileIds : files[f].st = "live" /\ files[f].folder \in treq[r].plan => f \in treq[r].found
        /\ treq[r].folders \cap LiveIn(folders) \subseteq treq[r].plan
        /\ \A d \in treq[r].plan : d \in TopsIn(folders, treq[r].folders) <=> folders[d].parent \notin treq[r].plan

RequestReady(r) == AskedKnown(r) /\ CountingOwn(r) /\ MovePlanned(r) /\ DeletionReady(r)

\* The snapshot of a subtree is a tree of its own, with its counts.
FoldersOf(t, o) == {x \in DOMAIN t.folders : x # t.root /\ t.folders[x].parent = o}
FilesBelow(t, o) == {f \in DOMAIN t.files : t.files[f].folder = o}
SnapshotSound(t) ==
    /\ t.kind \in {"file", "folder"} /\ t.parent \in Parents /\ t.name \in Names
    /\ t.kind = "folder" =>
          /\ DOMAIN t.folders \subseteq FolderIds /\ t.root \in DOMAIN t.folders /\ DOMAIN t.files \subseteq FileIds
          /\ \A o \in DOMAIN t.folders :
                /\ t.folders[o].name \in Names
                /\ o # t.root => t.folders[o].parent \in DOMAIN t.folders
                /\ t.folders[o].count = Cardinality(FoldersOf(t, o)) + Cardinality(FilesBelow(t, o))
          /\ \A f \in DOMAIN t.files : t.files[f].folder \in DOMAIN t.folders /\ t.files[f].name \in Names

\* Every folder of the table counts what is in it.
FoldersIn(rows, d) == {c \in LiveIn(rows) : rows[c].parent = d}
FilesIn(fs, d) == {f \in FileIds : fs[f].st = "live" /\ fs[f].folder = d}
CountsIn(rows, fs) ==
    \A d \in LiveIn(rows) : rows[d].count = Cardinality(FoldersIn(rows, d)) + Cardinality(FilesIn(fs, d))

\* Nothing is in a folder that is gone, but for what was uploaded.
ThereIn(rows, p) == p = Root \/ p \in LiveIn(rows)
WholeIn(rows, fs, late) ==
    /\ \A d \in LiveIn(rows) : ThereIn(rows, rows[d].parent)
    /\ \A f \in FileIds : fs[f].st = "live" => ThereIn(rows, fs[f].folder) \/ f \in late

TreeInv ==
    /\ TreeTyped /\ FolderKnown /\ CountingApart
    /\ \A r \in Requests : RequestReady(r)
    /\ \A t \in trash : SnapshotSound(t)
    /\ CountsIn(folders, files) /\ WholeIn(folders, files, uploaded)

-----------------------------------------------------------------------------
(* Folders: what a step of one request leaves to the others.               *)

\* A row that another request has locked.
HeldFrom(r, p) == p \in LiveIn(folders) /\ rowLock[p] \notin {r, NoRequest}

SparesOthers(r) ==
    /\ \A s \in Requests : s # r => treq'[s] = treq[s]
    /\ \A d \in FolderIds : HeldFrom(r, d) =>
          rowLock'[d] = rowLock[d] /\ folders'[d].st = "live" /\ folders'[d].parent = folders[d].parent
    /\ \A d \in LiveIn(folders') : HeldFrom(r, folders'[d].parent) =>
          d \in LiveIn(folders) /\ folders[d].parent = folders'[d].parent
    /\ \A f \in FileIds : files'[f].st = "live" /\ HeldFrom(r, files'[f].folder) =>
          files[f].st = "live" /\ files[f].folder = files'[f].folder
    /\ \A d \in FolderIds : folders[d].st # "free" =>
          folders'[d].st # "free" /\ (folders'[d].st = "live" => folders[d].st = "live")
    /\ \A f \in FileIds : files[f].st = "pending" /\ (treq[r].pc = "counting" => f \notin treq[r].files) =>
          files'[f].st = "pending" /\ files'[f].folder = files[f].folder
    /\ uploaded \subseteq uploaded'

\* Deletions, moves and uploads under way stay ready.
LEMMA OthersReady ==
    ASSUME TreeInv, NEW r \in Requests, SparesOthers(r), NEW s \in Requests, s # r
    PROVE  RequestReady(s)'
<1>0. treq'[s] = treq[s] /\ RequestReady(s) /\ TreeTyped /\ treq[s] \in TreeRequest /\ s # NoRequest
  BY RequestAssumption DEF SparesOthers, TreeInv, TreeTyped
<1>1. AskedKnown(s)'
  BY <1>0 DEF AskedKnown, RequestReady, SparesOthers, TreeRequest
<1>2. CountingOwn(s)'
  <2> SUFFICES ASSUME treq[s].pc = "counting" PROVE CountingOwn(s)'
    BY <1>0 DEF CountingOwn
  <2>1. PICK f \in FileIds : /\ treq[s].files = {f} /\ files[f].st = "pending" /\ f \in uploaded
                             /\ files[f].folder = treq[s].target
    BY <1>0 DEF RequestReady, CountingOwn
  <2>2. treq[r].pc = "counting" => f \notin treq[r].files
    BY <2>1 DEF TreeInv, CountingApart
  <2> QED
    BY <1>0, <2>1, <2>2 DEF CountingOwn, SparesOthers
<1>3. MovePlanned(s)'
  BY <1>0 DEF MovePlanned, RequestReady
<1>4. DeletionReady(s)'
  <2> SUFFICES ASSUME treq[s].pc = "delete" PROVE DeletionReady(s)'
    BY <1>0 DEF DeletionReady
  <2> DEFINE plan == treq[s].plan
             ids == treq[s].folders
  <2>0. plan \subseteq FolderIds /\ ids \subseteq FolderIds
    BY <1>0 DEF TreeRequest
  <2>1. /\ \A d \in plan : folders[d].st = "live" /\ rowLock[d] = s
        /\ ClosedIn(folders, plan)
        /\ \A f \in FileIds : files[f].st = "live" /\ files[f].folder \in plan => f \in treq[s].found
        /\ ids \cap LiveIn(folders) \subseteq plan
        /\ \A d \in plan : d \in TopsIn(folders, ids) <=> folders[d].parent \notin plan
    BY <1>0 DEF RequestReady, DeletionReady
  <2>2. \A d \in plan : d \in LiveIn(folders) /\ HeldFrom(r, d)
    BY <1>0, <2>0, <2>1 DEF HeldFrom, LiveIn
  <2>3. \A d \in plan : folders'[d].st = "live" /\ rowLock'[d] = s /\ folders'[d].parent = folders[d].parent
    BY <2>0, <2>1, <2>2 DEF SparesOthers
  <2>4. ClosedIn(folders', plan)
    BY <2>1, <2>2 DEF ClosedIn, SparesOthers
  <2>5. \A f \in FileIds : files'[f].st = "live" /\ files'[f].folder \in plan => f \in treq[s].found
    BY <2>1, <2>2 DEF SparesOthers
  <2>6. ids \cap LiveIn(folders') \subseteq plan
    <3> SUFFICES ASSUME NEW d \in ids, d \in LiveIn(folders') PROVE d \in plan
      OBVIOUS
    <3>1. folders[d].st # "free" /\ d \in FolderIds
      BY <1>0, <2>0 DEF RequestReady, AskedKnown
    <3>2. d \in LiveIn(folders)
      BY <3>1 DEF SparesOthers, LiveIn
    <3> QED
      BY <2>1, <3>2
  <2>7. plan \subseteq LiveIn(folders) /\ plan \subseteq LiveIn(folders')
    BY <2>0, <2>2, <2>3 DEF LiveIn
  <2>8. TopsIn(folders', ids) = TopsIn(folders, ids)
    BY <2>1, <2>3, <2>4, <2>6, <2>7, SubtreeFrozen
  <2> QED
    BY <1>0, <2>1, <2>3, <2>4, <2>5, <2>6, <2>8 DEF DeletionReady
<1> QED
  BY <1>1, <1>2, <1>3, <1>4 DEF RequestReady

\* The part of it that is about the rows.
RowsSpared(r) ==
    /\ \A d \in FolderIds : HeldFrom(r, d) => folders'[d].st = "live" /\ folders'[d].parent = folders[d].parent
    /\ \A d \in LiveIn(folders') : HeldFrom(r, folders'[d].parent) =>
          d \in LiveIn(folders) /\ folders[d].parent = folders'[d].parent
    /\ \A f \in FileIds : files'[f].st = "live" /\ HeldFrom(r, files'[f].folder) =>
          files[f].st = "live" /\ files[f].folder = files'[f].folder
    /\ \A d \in FolderIds : folders[d].st # "free" =>
          folders'[d].st # "free" /\ (folders'[d].st = "live" => folders[d].st = "live")
    /\ \A f \in FileIds : files[f].st = "pending" /\ (treq[r].pc = "counting" => f \notin treq[r].files) =>
          files'[f].st = "pending" /\ files'[f].folder = files[f].folder
    /\ uploaded \subseteq uploaded'

\* What is left to show of a step that ends its request.
LEMMA EndedStep ==
    ASSUME TreeInv, NEW r \in Requests, Ends(r), RowsSpared(r),
           folders' \in [FolderIds -> FolderRow], files' \in [FileIds -> FileRow],
           FolderKnown', \A t \in trash' : SnapshotSound(t),
           CountsIn(folders', files'), WholeIn(folders', files', uploaded')
    PROVE  TreeInv'
<1>0. TreeTyped /\ r # NoRequest
  BY RequestAssumption DEF TreeInv
<1>1. [IdleRequest EXCEPT !.pc = "done"] \in TreeRequest
  BY DEF IdleRequest, TreeRequest, TreeSteps, Parents
<1>2. treq' \in [Requests -> TreeRequest] /\ treq'[r] = [IdleRequest EXCEPT !.pc = "done"]
  BY <1>0, <1>1 DEF Ends, TreeTyped
<1>3. \A s \in Requests : s # r => treq'[s] = treq[s]
  BY <1>0 DEF Ends, TreeTyped
<1>4. rowLock' \in [FolderIds -> Requests \cup {NoRequest}]
  BY <1>0 DEF Ends, TreeTyped
<1>5. \A d \in FolderIds : HeldFrom(r, d) => rowLock'[d] = rowLock[d]
  BY DEF Ends, HeldFrom
<1>6. SparesOthers(r)
  BY <1>3, <1>5 DEF RowsSpared, SparesOthers
<1>7. treq'[r].pc = "done" /\ treq'[r].folders = {}
  BY <1>2 DEF IdleRequest
<1>8. RequestReady(r)'
  BY <1>7 DEF RequestReady, AskedKnown, CountingOwn, MovePlanned, DeletionReady
<1>9. \A s \in Requests : RequestReady(s)'
  BY <1>6, <1>8, OthersReady
<1>10. CountingApart'
  BY <1>3, <1>7 DEF TreeInv, CountingApart
<1>11. TreeTyped'
  BY <1>2, <1>4 DEF TreeTyped
<1> QED
  BY <1>9, <1>10, <1>11 DEF TreeInv

\* A step that changes locks and what its own request knows.
LEMMA OwnStep ==
    ASSUME TreeInv, NEW r \in Requests, treq[r].pc # "counting",
           UNCHANGED <<folders, files, trash, uploaded>>,
           NEW q \in TreeRequest, treq' = [treq EXCEPT ![r] = q], q.pc # "counting",
           rowLock' \in [FolderIds -> Requests \cup {NoRequest}],
           \A d \in FolderIds : HeldFrom(r, d) => rowLock'[d] = rowLock[d],
           RequestReady(r)'
    PROVE  TreeInv'
<1>0. TreeTyped
  BY DEF TreeInv
<1>1. treq' \in [Requests -> TreeRequest] /\ treq'[r] = q /\ \A s \in Requests : s # r => treq'[s] = treq[s]
  BY <1>0 DEF TreeTyped
<1>2. SparesOthers(r)
  BY <1>1 DEF SparesOthers, HeldFrom, LiveIn
<1>3. \A s \in Requests : RequestReady(s)'
  BY <1>2, OthersReady
<1>4. CountingApart'
  BY <1>1 DEF TreeInv, CountingApart
<1>5. TreeTyped' /\ FolderKnown' /\ \A t \in trash' : SnapshotSound(t)
  BY <1>0, <1>1 DEF TreeInv, TreeTyped, FolderKnown
<1> QED
  BY <1>3, <1>4, <1>5 DEF TreeInv

LEMMA RefusedInv ==
    ASSUME TreeInv, NEW r \in Requests, treq[r].pc # "counting", Refused(r)
    PROVE  TreeInv'
<1>1. RowsSpared(r)
  BY DEF Refused, RowsSpared, HeldFrom, LiveIn
<1>2. /\ folders' \in [FolderIds -> FolderRow] /\ files' \in [FileIds -> FileRow]
      /\ FolderKnown' /\ \A t \in trash' : SnapshotSound(t)
      /\ CountsIn(folders', files') /\ WholeIn(folders', files', uploaded')
  BY DEF Refused, TreeInv, TreeTyped, FolderKnown
<1> QED
  BY <1>1, <1>2, EndedStep DEF Refused

-----------------------------------------------------------------------------
(* Folders: counting.                                                      *)

LEMMA CardMoved ==
    ASSUME NEW S, IsFiniteSet(S), NEW out \in SUBSET S, NEW new, IsFiniteSet(new), new \cap S = {}
    PROVE  /\ Cardinality((S \ out) \cup new) = (Cardinality(S) - Cardinality(out)) + Cardinality(new)
           /\ Cardinality(S) \in Nat /\ Cardinality(out) \in Nat /\ Cardinality(new) \in Nat
           /\ Cardinality(out) <= Cardinality(S)
<1>1. IsFiniteSet(out) /\ Cardinality(out) <= Cardinality(S)
  BY FS_Subset
<1>2. S \cap out = out /\ (S \ out) \cap new = {}
  OBVIOUS
<1>3. IsFiniteSet(S \ out) /\ Cardinality(S \ out) = Cardinality(S) - Cardinality(out)
  BY <1>2, FS_Difference
<1>4. Cardinality((S \ out) \cup new) = Cardinality(S \ out) + Cardinality(new) - Cardinality({})
  BY <1>2, <1>3, FS_Union
<1>5. Cardinality({}) = 0
  BY FS_EmptySet
<1>6. Cardinality(S) \in Nat /\ Cardinality(out) \in Nat /\ Cardinality(new) \in Nat
  BY <1>1, FS_CardinalityType
<1> QED
  BY <1>1, <1>3, <1>4, <1>5, <1>6

LEMMA ChildrenFinite ==
    ASSUME NEW rows, NEW fs, NEW d
    PROVE  IsFiniteSet(FoldersIn(rows, d)) /\ IsFiniteSet(FilesIn(fs, d))
<1>1. FoldersIn(rows, d) \in SUBSET FolderIds /\ FilesIn(fs, d) \in SUBSET FileIds
  BY DEF FoldersIn, FilesIn, LiveIn
<1> QED
  BY <1>1, FolderIdAssumption, FileIdAssumption, FS_Subset

\* Counting changes counts only.
LEMMA CountedRows ==
    ASSUME NEW rows \in [FolderIds -> FolderRow], NEW plus \in [FolderIds -> Nat], NEW minus \in [FolderIds -> Nat]
    PROVE  /\ Counted(rows, plus, minus) \in [FolderIds -> FolderRow]
           /\ \A d \in FolderIds :
                 /\ Counted(rows, plus, minus)[d].st = rows[d].st
                 /\ Counted(rows, plus, minus)[d].parent = rows[d].parent
                 /\ Counted(rows, plus, minus)[d].count = IF rows[d].count + plus[d] > minus[d]
                                                         THEN rows[d].count + plus[d] - minus[d] ELSE 0
           /\ LiveIn(Counted(rows, plus, minus)) = LiveIn(rows)
           /\ \A d : FoldersIn(Counted(rows, plus, minus), d) = FoldersIn(rows, d)
<1> DEFINE next == Counted(rows, plus, minus)
           n(d) == IF rows[d].count + plus[d] > minus[d] THEN rows[d].count + plus[d] - minus[d] ELSE 0
<1>1. \A d \in FolderIds : rows[d] \in FolderRow /\ plus[d] \in Nat /\ minus[d] \in Nat
  OBVIOUS
<1>2. \A d \in FolderIds : n(d) \in Nat
  BY <1>1 DEF FolderRow
<1>3. ASSUME NEW d \in FolderIds PROVE next[d] = [rows[d] EXCEPT !.count = n(d)]
  BY <1>1 DEF Counted, FolderRow
<1>4. next = [d \in FolderIds |-> next[d]]
  BY DEF Counted
<1> HIDE DEF n, next
<1>5. ASSUME NEW d \in FolderIds
      PROVE  /\ next[d] \in FolderRow /\ next[d].st = rows[d].st
             /\ next[d].parent = rows[d].parent /\ next[d].count = n(d)
  <2>1. rows[d] \in FolderRow /\ n(d) \in Nat /\ next[d] = [rows[d] EXCEPT !.count = n(d)]
    BY <1>1, <1>2, <1>3
  <2> QED
    BY <2>1 DEF FolderRow
<1>6. LiveIn(next) = LiveIn(rows)
  BY <1>5 DEF LiveIn
<1>7. \A d : FoldersIn(next, d) = FoldersIn(rows, d)
  BY <1>5, <1>6 DEF FoldersIn, LiveIn
<1>8. next \in [FolderIds -> FolderRow]
  BY <1>4, <1>5
<1> QED
  BY <1>5, <1>6, <1>7, <1>8 DEF n, next

\* A count that follows its folder's children stays exact.
LEMMA CountFollows ==
    ASSUME NEW rows \in [FolderIds -> FolderRow], NEW fs, NEW d \in FolderIds,
           rows[d].count = Cardinality(FoldersIn(rows, d)) + Cardinality(FilesIn(fs, d)),
           NEW outD \in SUBSET FoldersIn(rows, d), NEW newD, IsFiniteSet(newD), newD \cap FoldersIn(rows, d) = {},
           NEW outF \in SUBSET FilesIn(fs, d), NEW newF, IsFiniteSet(newF), newF \cap FilesIn(fs, d) = {},
           NEW plus, plus = Cardinality(newF) + Cardinality(newD),
           NEW minus, minus = Cardinality(outF) + Cardinality(outD)
    PROVE  (IF rows[d].count + plus > minus THEN rows[d].count + plus - minus ELSE 0)
              = Cardinality((FoldersIn(rows, d) \ outD) \cup newD) + Cardinality((FilesIn(fs, d) \ outF) \cup newF)
<1>1. IsFiniteSet(FoldersIn(rows, d)) /\ IsFiniteSet(FilesIn(fs, d))
  BY ChildrenFinite
<1>2. /\ Cardinality((FoldersIn(rows, d) \ outD) \cup newD)
            = (Cardinality(FoldersIn(rows, d)) - Cardinality(outD)) + Cardinality(newD)
      /\ Cardinality(FoldersIn(rows, d)) \in Nat /\ Cardinality(outD) \in Nat /\ Cardinality(newD) \in Nat
      /\ Cardinality(outD) <= Cardinality(FoldersIn(rows, d))
  BY <1>1, CardMoved
<1>3. /\ Cardinality((FilesIn(fs, d) \ outF) \cup newF)
            = (Cardinality(FilesIn(fs, d)) - Cardinality(outF)) + Cardinality(newF)
      /\ Cardinality(FilesIn(fs, d)) \in Nat /\ Cardinality(outF) \in Nat /\ Cardinality(newF) \in Nat
      /\ Cardinality(outF) <= Cardinality(FilesIn(fs, d))
  BY <1>1, CardMoved
<1> QED
  BY <1>2, <1>3

LEMMA OneNone ==
    ASSUME NEW p
    PROVE  /\ One(p) \in [FolderIds -> Nat] /\ None \in [FolderIds -> Nat]
           /\ \A d \in FolderIds : One(p)[d] = (IF d = p THEN 1 ELSE 0) /\ None[d] = 0
BY DEF One, None

\* One more folder in p.
LEMMA OneFolderMore ==
    ASSUME NEW rows \in [FolderIds -> FolderRow], NEW fs, NEW e \in FolderIds, NEW p, NEW d,
           d \notin FoldersIn(rows, e),
           rows[e].count = Cardinality(FoldersIn(rows, e)) + Cardinality(FilesIn(fs, e))
    PROVE  (IF rows[e].count + One(p)[e] > None[e] THEN rows[e].count + One(p)[e] - None[e] ELSE 0)
              = Cardinality(FoldersIn(rows, e) \cup (IF e = p THEN {d} ELSE {})) + Cardinality(FilesIn(fs, e))
<1> DEFINE newD == IF e = p THEN {d} ELSE {}
<1>1. IsFiniteSet(newD) /\ Cardinality(newD) = (IF e = p THEN 1 ELSE 0)
  BY FS_Singleton, FS_EmptySet
<1>2. One(p)[e] = Cardinality({}) + Cardinality(newD) /\ None[e] = Cardinality({}) + Cardinality({})
  BY <1>1, OneNone, FS_EmptySet
<1>3. {} \in SUBSET FoldersIn(rows, e) /\ {} \in SUBSET FilesIn(fs, e) /\ newD \cap FoldersIn(rows, e) = {}
      /\ {} \cap FilesIn(fs, e) = {} /\ IsFiniteSet({})
  BY FS_EmptySet
<1> HIDE DEF newD
<1>4. (IF rows[e].count + One(p)[e] > None[e] THEN rows[e].count + One(p)[e] - None[e] ELSE 0)
         = Cardinality((FoldersIn(rows, e) \ {}) \cup newD) + Cardinality((FilesIn(fs, e) \ {}) \cup {})
  BY <1>1, <1>2, <1>3, CountFollows
<1>5. (FoldersIn(rows, e) \ {}) \cup newD = FoldersIn(rows, e) \cup newD
      /\ (FilesIn(fs, e) \ {}) \cup {} = FilesIn(fs, e)
  OBVIOUS
<1> QED
  BY <1>4, <1>5 DEF newD

\* One more file in p.
LEMMA OneFileMore ==
    ASSUME NEW rows \in [FolderIds -> FolderRow], NEW fs, NEW e \in FolderIds, NEW p, NEW f,
           f \notin FilesIn(fs, e),
           rows[e].count = Cardinality(FoldersIn(rows, e)) + Cardinality(FilesIn(fs, e))
    PROVE  (IF rows[e].count + One(p)[e] > None[e] THEN rows[e].count + One(p)[e] - None[e] ELSE 0)
              = Cardinality(FoldersIn(rows, e)) + Cardinality(FilesIn(fs, e) \cup (IF e = p THEN {f} ELSE {}))
<1> DEFINE newF == IF e = p THEN {f} ELSE {}
<1>1. IsFiniteSet(newF) /\ Cardinality(newF) = (IF e = p THEN 1 ELSE 0)
  BY FS_Singleton, FS_EmptySet
<1>2. One(p)[e] = Cardinality(newF) + Cardinality({}) /\ None[e] = Cardinality({}) + Cardinality({})
  BY <1>1, OneNone, FS_EmptySet
<1>3. {} \in SUBSET FoldersIn(rows, e) /\ {} \in SUBSET FilesIn(fs, e) /\ newF \cap FilesIn(fs, e) = {}
      /\ {} \cap FoldersIn(rows, e) = {} /\ IsFiniteSet({})
  BY FS_EmptySet
<1> HIDE DEF newF
<1>4. (IF rows[e].count + One(p)[e] > None[e] THEN rows[e].count + One(p)[e] - None[e] ELSE 0)
         = Cardinality((FoldersIn(rows, e) \ {}) \cup {}) + Cardinality((FilesIn(fs, e) \ {}) \cup newF)
  BY <1>1, <1>2, <1>3, CountFollows
<1>5. (FoldersIn(rows, e) \ {}) \cup {} = FoldersIn(rows, e)
      /\ (FilesIn(fs, e) \ {}) \cup newF = FilesIn(fs, e) \cup newF
  OBVIOUS
<1> QED
  BY <1>4, <1>5 DEF newF

\* Nothing is in a folder that has no row yet.
LEMMA FreeIsEmpty ==
    ASSUME TreeInv, NEW d \in FolderIds, folders[d].st = "free"
    PROVE  FoldersIn(folders, d) = {} /\ FilesIn(files, d) = {} /\ d \notin LiveIn(folders)
<1>1. d # Root
  BY FolderIdAssumption
<1>2. FoldersIn(folders, d) = {} /\ d \notin LiveIn(folders)
  BY <1>1 DEF TreeInv, WholeIn, ThereIn, FoldersIn, LiveIn
<1>3. FilesIn(files, d) = {}
  BY <1>1 DEF TreeInv, FolderKnown, FilesIn
<1> QED
  BY <1>2, <1>3

-----------------------------------------------------------------------------
(* Folders: the actions.                                                   *)

LEMMA CreateFolderInv ==
    ASSUME TreeInv, NEW r \in Requests, NEW p \in Parents, NEW n \in Names, CreateFolder(r, p, n)
    PROVE  TreeInv'
<1>0. treq[r].pc = "idle" /\ CanLock(r, {p})
  BY DEF CreateFolder
<1>1. CASE Refused(r)
  BY <1>0, <1>1, RefusedInv
<1>2. CASE Exists(p) /\ \E d \in FreeFolders :
              /\ folders' = Counted([folders EXCEPT ![d] =
                    [st |-> "live", parent |-> p, name |-> n, count |-> 0]], One(p), None)
              /\ Ends(r) /\ UNCHANGED <<files, trash, uploaded>>
  <2>1. PICK d \in FreeFolders :
              /\ folders' = Counted([folders EXCEPT ![d] =
                    [st |-> "live", parent |-> p, name |-> n, count |-> 0]], One(p), None)
              /\ Ends(r) /\ UNCHANGED <<files, trash, uploaded>>
    BY <1>2
  <2> DEFINE rows == [folders EXCEPT ![d] = [st |-> "live", parent |-> p, name |-> n, count |-> 0]]
  <2>2. /\ d \in FolderIds /\ folders[d].st = "free" /\ TreeTyped /\ d # p /\ ThereIn(folders, p) /\ d # Root
        /\ d \notin LiveIn(folders)
    BY <1>2, FolderIdAssumption DEF FreeFolders, TreeInv, Exists, ThereIn, LiveFolders, LiveIn
  <2>3. rows \in [FolderIds -> FolderRow]
    BY <2>2 DEF TreeTyped, FolderRow
  <2>4. /\ rows[d].st = "live" /\ rows[d].parent = p /\ rows[d].count = 0
        /\ \A e \in FolderIds : e # d => rows[e] = folders[e]
    BY <2>2 DEF TreeTyped
  <2>5. folders' = Counted(rows, One(p), None) /\ UNCHANGED <<files, trash, uploaded>>
    BY <2>1
  <2> HIDE DEF rows
  <2>6. /\ folders' \in [FolderIds -> FolderRow]
        /\ \A e \in FolderIds : /\ folders'[e].st = rows[e].st /\ folders'[e].parent = rows[e].parent
              /\ folders'[e].count = IF rows[e].count + One(p)[e] > None[e]
                                     THEN rows[e].count + One(p)[e] - None[e] ELSE 0
        /\ LiveIn(folders') = LiveIn(rows) /\ \A e : FoldersIn(folders', e) = FoldersIn(rows, e)
    BY <2>3, <2>5, CountedRows, OneNone
  <2>7. LiveIn(folders') = LiveIn(folders) \cup {d}
    BY <2>2, <2>4, <2>6 DEF LiveIn
  <2>8. \A e : FoldersIn(folders', e) = FoldersIn(folders, e) \cup (IF e = p THEN {d} ELSE {})
    <3>1. \A c \in LiveIn(folders) : c # d /\ rows[c].parent = folders[c].parent
      BY <2>2, <2>4 DEF LiveIn
    <3>2. LiveIn(rows) = LiveIn(folders) \cup {d}
      BY <2>6, <2>7
    <3> SUFFICES ASSUME NEW e PROVE FoldersIn(rows, e) = FoldersIn(folders, e) \cup (IF e = p THEN {d} ELSE {})
      BY <2>6
    <3>3. \A c : c \in FoldersIn(rows, e) <=> c \in FoldersIn(folders, e) \/ (c = d /\ e = p)
      BY <2>4, <3>1, <3>2 DEF FoldersIn
    <3> QED
      BY <3>3
  <2>9. CountsIn(folders', files')
    <3> SUFFICES ASSUME NEW e \in LiveIn(folders')
                 PROVE  folders'[e].count = Cardinality(FoldersIn(folders', e)) + Cardinality(FilesIn(files', e))
      BY DEF CountsIn
    <3>1. CASE e = d
      <4>1. FoldersIn(folders', e) = {} /\ FilesIn(files', e) = {}
        BY <3>1, <2>2, <2>5, <2>8, FreeIsEmpty
      <4>2. folders'[e].count = 0
        BY <3>1, <2>2, <2>4, <2>6, OneNone
      <4> QED
        BY <4>1, <4>2, FS_EmptySet
    <3>2. CASE e # d
      <4>1. e \in LiveIn(folders) /\ e \in FolderIds /\ rows[e] = folders[e]
        BY <3>2, <2>4, <2>7 DEF LiveIn
      <4>2. folders[e].count = Cardinality(FoldersIn(folders, e)) + Cardinality(FilesIn(files, e))
        BY <4>1 DEF TreeInv, CountsIn
      <4>3. d \notin FoldersIn(folders, e) /\ folders \in [FolderIds -> FolderRow]
        BY <2>2 DEF FoldersIn, TreeTyped
      <4>4. folders'[e].count = Cardinality(FoldersIn(folders, e) \cup (IF e = p THEN {d} ELSE {}))
                                + Cardinality(FilesIn(files, e))
        BY <4>1, <4>2, <4>3, <2>6, OneFolderMore
      <4> QED
        BY <4>4, <2>5, <2>8
    <3> QED
      BY <3>1, <3>2
  <2>10. WholeIn(folders', files', uploaded')
    BY <2>2, <2>4, <2>5, <2>6, <2>7 DEF TreeInv, WholeIn, ThereIn, LiveIn
  <2>11. FolderKnown'
    BY <2>2, <2>4, <2>5, <2>6 DEF TreeInv, FolderKnown, TreeTyped, FileRow, Parents
  <2>12. RowsSpared(r)
    <3>1. ~HeldFrom(r, p)
      BY <1>0 DEF HeldFrom, CanLock, LiveIn
    <3> QED
      BY <3>1, <2>2, <2>4, <2>5, <2>6 DEF RowsSpared, HeldFrom, LiveIn
  <2> QED
    BY <2>1, <2>2, <2>5, <2>6, <2>9, <2>10, <2>11, <2>12, EndedStep DEF TreeInv, TreeTyped
<1> QED
  BY <1>1, <1>2 DEF CreateFolder

LEMMA RenameFolderInv ==
    ASSUME TreeInv, NEW r \in Requests, NEW d \in LiveFolders, NEW n \in Names, RenameFolder(r, d, n)
    PROVE  TreeInv'
<1>0. treq[r].pc = "idle"
  BY DEF RenameFolder
<1>1. CASE Refused(r)
  BY <1>0, <1>1, RefusedInv
<1>2. CASE folders' = [folders EXCEPT ![d].name = n] /\ Ends(r) /\ UNCHANGED <<files, trash, uploaded>>
  <2>1. TreeTyped /\ d \in FolderIds
    BY DEF TreeInv, LiveFolders
  <2>2. /\ folders' \in [FolderIds -> FolderRow]
        /\ \A e \in FolderIds : /\ folders'[e].st = folders[e].st /\ folders'[e].parent = folders[e].parent
                                /\ folders'[e].count = folders[e].count
    BY <1>2, <2>1 DEF TreeTyped, FolderRow
  <2>3. LiveIn(folders') = LiveIn(folders)
    BY <2>2 DEF LiveIn
  <2>4. \A e : FoldersIn(folders', e) = FoldersIn(folders, e)
    BY <2>2, <2>3 DEF FoldersIn, LiveIn
  <2>5. \A e \in LiveIn(folders) : folders'[e].parent = folders[e].parent /\ folders'[e].count = folders[e].count
    BY <2>2 DEF LiveIn
  <2>6. CountsIn(folders', files') /\ WholeIn(folders', files', uploaded')
    <3>1. CountsIn(folders', files')
      BY <1>2, <2>5, <2>3, <2>4 DEF TreeInv, CountsIn
    <3>2. WholeIn(folders', files', uploaded')
      BY <1>2, <2>5, <2>3 DEF TreeInv, WholeIn, ThereIn
    <3> QED
      BY <3>1, <3>2
  <2>7. FolderKnown'
    BY <1>2, <2>1, <2>2 DEF TreeInv, FolderKnown, TreeTyped, FileRow, Parents
  <2>8. RowsSpared(r)
    BY <1>2, <2>2, <2>3 DEF RowsSpared, HeldFrom, LiveIn
  <2> QED
    BY <1>2, <2>1, <2>2, <2>6, <2>7, <2>8, EndedStep DEF TreeInv, TreeTyped
<1> QED
  BY <1>1, <1>2 DEF RenameFolder

LEMMA RenameFileInv ==
    ASSUME TreeInv, NEW r \in Requests, NEW f \in LiveFiles, NEW n \in Names, RenameFile(r, f, n)
    PROVE  TreeInv'
<1>0. treq[r].pc = "idle"
  BY DEF RenameFile
<1>1. CASE Refused(r)
  BY <1>0, <1>1, RefusedInv
<1>2. CASE files' = [files EXCEPT ![f].name = n] /\ Ends(r) /\ UNCHANGED <<folders, trash, uploaded>>
  <2>1. TreeTyped /\ f \in FileIds
    BY DEF TreeInv, LiveFiles
  <2>2. /\ files' \in [FileIds -> FileRow]
        /\ \A e \in FileIds : files'[e].st = files[e].st /\ files'[e].folder = files[e].folder
    BY <1>2, <2>1 DEF TreeTyped, FileRow
  <2>3. \A e : FilesIn(files', e) = FilesIn(files, e)
    BY <2>2 DEF FilesIn
  <2>4. CountsIn(folders', files') /\ WholeIn(folders', files', uploaded')
    BY <1>2, <2>2, <2>3 DEF TreeInv, CountsIn, WholeIn, ThereIn
  <2>5. FolderKnown'
    BY <1>2, <2>1, <2>2 DEF TreeInv, FolderKnown
  <2>6. RowsSpared(r)
    BY <1>2, <2>2 DEF RowsSpared, HeldFrom, LiveIn
  <2> QED
    BY <1>2, <2>1, <2>2, <2>4, <2>5, <2>6, EndedStep DEF TreeInv, TreeTyped
<1> QED
  BY <1>1, <1>2 DEF RenameFile

LEMMA UploadInsertInv ==
    ASSUME TreeInv, NEW r \in Requests, NEW p \in Parents, NEW n \in Names, UploadInsert(r, p, n)
    PROVE  TreeInv'
<1>0. treq[r].pc = "idle" /\ TreeTyped
  BY DEF UploadInsert, TreeInv
<1>1. CASE Refused(r)
  BY <1>0, <1>1, RefusedInv
<1>2. CASE Exists(p) /\ \E f \in FreeFiles :
              /\ files' = [files EXCEPT ![f] = [st |-> "pending", folder |-> p, name |-> n]]
              /\ treq' = [treq EXCEPT ![r] = [@ EXCEPT !.pc = "counting", !.files = {f}, !.target = p]]
              /\ uploaded' = uploaded \cup {f}
              /\ UNCHANGED <<folders, trash, rowLock>>
  <2>1. PICK f \in FreeFiles :
              /\ files' = [files EXCEPT ![f] = [st |-> "pending", folder |-> p, name |-> n]]
              /\ treq' = [treq EXCEPT ![r] = [@ EXCEPT !.pc = "counting", !.files = {f}, !.target = p]]
              /\ uploaded' = uploaded \cup {f}
              /\ UNCHANGED <<folders, trash, rowLock>>
    BY <1>2
  <2>2. f \in FileIds /\ files[f].st = "free" /\ ThereIn(folders, p)
    BY <1>2 DEF FreeFiles, Exists, ThereIn, LiveFolders, LiveIn
  <2>3. /\ files' \in [FileIds -> FileRow]
        /\ files'[f] = [st |-> "pending", folder |-> p, name |-> n]
        /\ \A g \in FileIds : g # f => files'[g] = files[g]
    BY <1>0, <2>1, <2>2 DEF TreeTyped, FileRow
  <2>4. [treq[r] EXCEPT !.pc = "counting", !.files = {f}, !.target = p] \in TreeRequest
    BY <1>0, <2>2 DEF TreeTyped, TreeRequest, TreeSteps
  <2>5. /\ treq' \in [Requests -> TreeRequest]
        /\ \A s \in Requests : s # r => treq'[s] = treq[s]
        /\ treq'[r] = [treq[r] EXCEPT !.pc = "counting", !.files = {f}, !.target = p]
    BY <1>0, <2>1, <2>4 DEF TreeTyped
  <2>6. treq'[r].pc = "counting" /\ treq'[r].files = {f} /\ treq'[r].target = p /\ treq'[r].folders = treq[r].folders
    BY <1>0, <2>5 DEF TreeTyped, TreeRequest
  <2>7. SparesOthers(r)
    BY <1>0, <2>1, <2>2, <2>3, <2>5 DEF SparesOthers, HeldFrom, LiveIn
  <2>8. RequestReady(r)'
    <3>1. AskedKnown(r)'
      BY <2>1, <2>6 DEF TreeInv, RequestReady, AskedKnown
    <3>2. CountingOwn(r)'
      BY <2>1, <2>2, <2>3, <2>6 DEF CountingOwn
    <3> QED
      BY <2>6, <3>1, <3>2 DEF RequestReady, MovePlanned, DeletionReady
  <2>9. \A s \in Requests : RequestReady(s)'
    BY <2>7, <2>8, OthersReady
  <2>10. CountingApart'
    <3>1. ASSUME NEW s \in Requests, s # r, treq[s].pc = "counting" PROVE f \notin treq[s].files
      BY <3>1, <2>2 DEF TreeInv, RequestReady, CountingOwn
    <3> SUFFICES ASSUME NEW a \in Requests, NEW b \in Requests, a # b,
                        treq'[a].pc = "counting", treq'[b].pc = "counting"
                 PROVE  treq'[a].files \cap treq'[b].files = {}
      BY DEF CountingApart
    <3>2. CASE a = r
      BY <3>1, <3>2, <2>5, <2>6
    <3>3. CASE b = r
      BY <3>1, <3>3, <2>5, <2>6
    <3>4. CASE a # r /\ b # r
      BY <3>4, <2>5 DEF TreeInv, CountingApart
    <3> QED
      BY <3>2, <3>3, <3>4
  <2>11. FolderKnown'
    BY <2>1, <2>2, <2>3 DEF TreeInv, FolderKnown, ThereIn, LiveIn
  <2>12. \A e : FilesIn(files', e) = FilesIn(files, e)
    BY <2>2, <2>3 DEF FilesIn
  <2>13. CountsIn(folders', files') /\ WholeIn(folders', files', uploaded')
    <3>1. CountsIn(folders', files')
      BY <2>1, <2>12 DEF TreeInv, CountsIn
    <3>2. WholeIn(folders', files', uploaded')
      <4>1. \A g \in FileIds : files'[g].st = "live" => files'[g] = files[g]
        BY <2>3
      <4> QED
        BY <2>1, <4>1 DEF TreeInv, WholeIn, ThereIn
    <3> QED
      BY <3>1, <3>2
  <2> QED
    BY <1>0, <2>1, <2>3, <2>5, <2>9, <2>10, <2>11, <2>13 DEF TreeInv, TreeTyped
<1> QED
  BY <1>1, <1>2 DEF UploadInsert

LEMMA UploadCountInv ==
    ASSUME TreeInv, NEW r \in Requests, UploadCount(r)
    PROVE  TreeInv'
<1>0. /\ treq[r].pc = "counting" /\ TreeTyped /\ CanLock(r, {treq[r].target}) /\ Ends(r)
      /\ trash' = trash /\ uploaded' = uploaded
  BY DEF UploadCount, TreeInv
<1>1. PICK f \in FileIds : /\ treq[r].files = {f} /\ files[f].st = "pending" /\ f \in uploaded
                           /\ files[f].folder = treq[r].target
  BY <1>0 DEF TreeInv, RequestReady, CountingOwn
<1> DEFINE p == treq[r].target
<1>2. files' = [g \in FileIds |-> IF g = f THEN [files[g] EXCEPT !.st = "live"] ELSE files[g]]
  BY <1>1 DEF UploadCount
<1>3. /\ files' \in [FileIds -> FileRow] /\ files'[f].st = "live" /\ files'[f].folder = p
      /\ \A g \in FileIds : g # f => files'[g] = files[g]
      /\ \A g \in FileIds : files'[g].folder = files[g].folder
  BY <1>0, <1>1, <1>2 DEF TreeTyped, FileRow
<1>4. ASSUME NEW e PROVE FilesIn(files', e) = FilesIn(files, e) \cup (IF e = p THEN {f} ELSE {})
  <2>1. \A g : g \in FilesIn(files', e) <=> g \in FilesIn(files, e) \/ (g = f /\ e = p)
    BY <1>1, <1>3 DEF FilesIn
  <2> QED
    BY <2>1
<1>5. /\ folders' \in [FolderIds -> FolderRow]
      /\ \A e \in FolderIds : folders'[e].st = folders[e].st /\ folders'[e].parent = folders[e].parent
      /\ LiveIn(folders') = LiveIn(folders) /\ \A e : FoldersIn(folders', e) = FoldersIn(folders, e)
      /\ CountsIn(folders', files')
  <2>1. CASE p \in LiveIn(folders)
    <3>1. folders' = Counted(folders, One(p), None)
      BY <2>1 DEF UploadCount, LiveFolders, LiveIn
    <3>2. /\ folders' \in [FolderIds -> FolderRow]
          /\ \A e \in FolderIds : /\ folders'[e].st = folders[e].st /\ folders'[e].parent = folders[e].parent
                /\ folders'[e].count = IF folders[e].count + One(p)[e] > None[e]
                                       THEN folders[e].count + One(p)[e] - None[e] ELSE 0
          /\ LiveIn(folders') = LiveIn(folders) /\ \A e : FoldersIn(folders', e) = FoldersIn(folders, e)
      BY <1>0, <3>1, CountedRows, OneNone DEF TreeTyped
    <3>3. ASSUME NEW e \in LiveIn(folders)
          PROVE  folders'[e].count = Cardinality(FoldersIn(folders', e)) + Cardinality(FilesIn(files', e))
      <4>1. e \in FolderIds /\ folders[e].count = Cardinality(FoldersIn(folders, e)) + Cardinality(FilesIn(files, e))
        BY DEF TreeInv, CountsIn, LiveIn
      <4>2. f \notin FilesIn(files, e) /\ folders \in [FolderIds -> FolderRow]
        BY <1>0, <1>1 DEF FilesIn, TreeTyped
      <4>3. folders'[e].count = Cardinality(FoldersIn(folders, e))
                                + Cardinality(FilesIn(files, e) \cup (IF e = p THEN {f} ELSE {}))
        BY <4>1, <4>2, <3>2, OneFileMore
      <4> QED
        BY <4>3, <3>2, <1>4
    <3> QED
      BY <3>2, <3>3 DEF CountsIn
  <2>2. CASE p \notin LiveIn(folders)
    <3>1. folders' = folders
      BY <2>2 DEF UploadCount, LiveFolders, LiveIn
    <3>2. \A e \in LiveIn(folders) : FilesIn(files', e) = FilesIn(files, e)
      BY <2>2, <1>4
    <3> QED
      BY <1>0, <3>1, <3>2 DEF TreeInv, TreeTyped, CountsIn
  <2> QED
    BY <2>1, <2>2
<1>6. WholeIn(folders', files', uploaded')
  <2>1. \A d \in LiveIn(folders') : ThereIn(folders', folders'[d].parent)
    BY <1>5 DEF TreeInv, WholeIn, ThereIn, LiveIn
  <2>2. ASSUME NEW g \in FileIds, files'[g].st = "live" PROVE ThereIn(folders', files'[g].folder) \/ g \in uploaded
    BY <2>2, <1>1, <1>3, <1>5 DEF TreeInv, WholeIn, ThereIn
  <2> QED
    BY <1>0, <2>1, <2>2 DEF WholeIn
<1>7. FolderKnown'
  BY <1>0, <1>1, <1>3, <1>5 DEF TreeInv, FolderKnown, TreeTyped, FileRow, Parents
<1>8. RowsSpared(r)
  <2>1. ~HeldFrom(r, p)
    BY <1>0 DEF HeldFrom, CanLock, LiveIn
  <2> QED
    BY <1>0, <1>1, <1>3, <1>5, <2>1 DEF RowsSpared, HeldFrom, LiveIn
<1> QED
  BY <1>0, <1>3, <1>5, <1>6, <1>7, <1>8, EndedStep DEF TreeInv

LEMMA RequestFailsInv ==
    ASSUME TreeInv, NEW r \in Requests, RequestFails(r)
    PROVE  TreeInv'
<1>0. Ends(r) /\ UNCHANGED <<folders, trash, uploaded>> /\ TreeTyped
  BY DEF RequestFails, TreeInv
<1>1. /\ files' \in [FileIds -> FileRow]
      /\ \A f \in FileIds : files'[f].folder = files[f].folder
      /\ \A f \in FileIds : files'[f] = files[f]
                            \/ (treq[r].pc = "counting" /\ f \in treq[r].files /\ files'[f].st = "gone")
  BY <1>0 DEF RequestFails, TreeTyped, FileRow
<1>2. \A f \in FileIds : files'[f].st = "live" <=> files[f].st = "live"
  <2>1. \A f \in FileIds : treq[r].pc = "counting" /\ f \in treq[r].files => files[f].st = "pending"
    BY DEF TreeInv, RequestReady, CountingOwn
  <2> QED
    BY <1>1, <2>1
<1>3. \A e : FilesIn(files', e) = FilesIn(files, e)
  BY <1>1, <1>2 DEF FilesIn
<1>4. CountsIn(folders', files')
  BY <1>0, <1>3 DEF TreeInv, CountsIn
<1>5. WholeIn(folders', files', uploaded')
  BY <1>0, <1>1, <1>2 DEF TreeInv, WholeIn
<1>6. FolderKnown'
  BY <1>0, <1>1, <1>2 DEF TreeInv, FolderKnown
<1>7. RowsSpared(r)
  BY <1>0, <1>1, <1>2 DEF RowsSpared, HeldFrom, LiveIn
<1> QED
  BY <1>0, <1>1, <1>4, <1>5, <1>6, <1>7, EndedStep DEF TreeInv, TreeTyped

LEMMA MoveStartInv ==
    ASSUME TreeInv, NEW r \in Requests, NEW fs \in SUBSET LiveFiles, NEW ds \in SUBSET LiveFolders,
           NEW p \in Parents, MoveStart(r, fs, ds, p)
    PROVE  TreeInv'
<1>0. treq[r].pc = "idle" /\ TreeTyped
  BY DEF MoveStart, TreeInv
<1>1. CASE Refused(r)
  BY <1>0, <1>1, RefusedInv
<1> DEFINE q == [treq[r] EXCEPT !.pc = "lock", !.files = fs, !.folders = ds, !.target = p]
<1>2. CASE treq' = [treq EXCEPT ![r] = q] /\ UNCHANGED <<folders, files, trash, rowLock, uploaded>>
  <2>1. fs \subseteq FileIds /\ ds \subseteq FolderIds /\ \A d \in ds : folders[d].st = "live"
    BY DEF LiveFiles, LiveFolders
  <2>2. q \in TreeRequest /\ q.pc = "lock" /\ q.folders = ds
    BY <1>0, <2>1 DEF TreeTyped, TreeRequest, TreeSteps
  <2>3. treq'[r] = q
    BY <1>0, <1>2 DEF TreeTyped
  <2> HIDE DEF q
  <2>4. RequestReady(r)'
    BY <1>2, <2>1, <2>2, <2>3 DEF RequestReady, AskedKnown, CountingOwn, MovePlanned, DeletionReady
  <2> QED
    BY <1>0, <1>2, <2>2, <2>4, OwnStep DEF TreeTyped
<1> QED
  BY <1>1, <1>2 DEF MoveStart

LEMMA TrashStartInv ==
    ASSUME TreeInv, NEW r \in Requests, NEW fs \in SUBSET LiveFiles, NEW ds \in SUBSET LiveFolders,
           TrashStart(r, fs, ds)
    PROVE  TreeInv'
<1> DEFINE q == [treq[r] EXCEPT !.pc = "discover", !.files = fs, !.folders = ds]
<1>0. /\ treq[r].pc = "idle" /\ TreeTyped
      /\ treq' = [treq EXCEPT ![r] = q] /\ UNCHANGED <<folders, files, trash, rowLock, uploaded>>
  BY DEF TrashStart, TreeInv
<1>1. fs \subseteq FileIds /\ ds \subseteq FolderIds /\ \A d \in ds : folders[d].st = "live"
  BY DEF LiveFiles, LiveFolders
<1>2. q \in TreeRequest /\ q.pc = "discover" /\ q.folders = ds
  BY <1>0, <1>1 DEF TreeTyped, TreeRequest, TreeSteps
<1>3. treq'[r] = q
  BY <1>0 DEF TreeTyped
<1> HIDE DEF q
<1>4. RequestReady(r)'
  BY <1>0, <1>1, <1>2, <1>3 DEF RequestReady, AskedKnown, CountingOwn, MovePlanned, DeletionReady
<1> QED
  BY <1>0, <1>2, <1>4, OwnStep DEF TreeTyped

\* Waiting for rows and locking them.
LEMMA LockInv ==
    ASSUME TreeInv, NEW r \in Requests, treq[r].pc # "counting", NEW pc \in {"plan", "discover"},
           NEW rows \in SUBSET FolderIds, CanLock(r, rows),
           rowLock' = [d \in FolderIds |-> IF d \in rows THEN r ELSE rowLock[d]],
           treq' = [treq EXCEPT ![r].pc = pc], UNCHANGED <<folders, files, trash, uploaded>>
    PROVE  TreeInv'
<1> DEFINE q == [treq[r] EXCEPT !.pc = pc]
<1>0. TreeTyped
  BY DEF TreeInv
<1>1. q \in TreeRequest /\ q.pc = pc /\ q.folders = treq[r].folders /\ treq' = [treq EXCEPT ![r] = q] /\ treq'[r] = q
  BY <1>0 DEF TreeTyped, TreeRequest, TreeSteps
<1>2. rowLock' \in [FolderIds -> Requests \cup {NoRequest}]
  BY <1>0 DEF TreeTyped
<1>3. \A d \in FolderIds : HeldFrom(r, d) => rowLock'[d] = rowLock[d]
  BY DEF HeldFrom, CanLock
<1> HIDE DEF q
<1>4. RequestReady(r)'
  BY <1>1 DEF TreeInv, RequestReady, AskedKnown, CountingOwn, MovePlanned, DeletionReady
<1>5. q.pc # "counting"
  BY <1>1
<1> QED
  BY <1>1, <1>2, <1>3, <1>4, <1>5, OwnStep

LEMMA MoveLockInv ==
    ASSUME TreeInv, NEW r \in Requests, MoveLock(r)
    PROVE  TreeInv'
<1> DEFINE rows == (treq[r].folders \cup FilesRows(r)) \cap LiveFolders
<1>1. rows \in SUBSET FolderIds
  BY DEF LiveFolders
<1>2. /\ treq[r].pc = "lock" /\ CanLock(r, rows)
      /\ rowLock' = [d \in FolderIds |-> IF d \in rows THEN r ELSE rowLock[d]]
      /\ treq' = [treq EXCEPT ![r].pc = "plan"] /\ UNCHANGED <<folders, files, trash, uploaded>>
  BY DEF MoveLock
<1> HIDE DEF rows
<1> QED
  BY <1>1, <1>2, LockInv

LEMMA TrashStabilizeInv ==
    ASSUME TreeInv, NEW r \in Requests, TrashStabilize(r)
    PROVE  TreeInv'
<1> DEFINE rows == treq[r].plan \cap LiveFolders
<1>1. rows \in SUBSET FolderIds
  BY DEF LiveFolders
<1>2. /\ treq[r].pc = "stabilize" /\ CanLock(r, rows)
      /\ rowLock' = [d \in FolderIds |-> IF d \in rows THEN r ELSE rowLock[d]]
      /\ treq' = [treq EXCEPT ![r].pc = "discover"] /\ UNCHANGED <<folders, files, trash, uploaded>>
  BY DEF TrashStabilize, CanLock
<1> HIDE DEF rows
<1> QED
  BY <1>1, <1>2, LockInv

\* The topmost folders and all that is below them.
Planned(rows, ids) == UNION {SubtreeIn(rows, d) : d \in TopsIn(rows, ids)}

LEMMA PlannedIs ==
    ASSUME NEW rows, NEW ids \in SUBSET FolderIds,
           \A d \in ids \cap LiveIn(rows) : rows[d].parent \notin SubtreeIn(rows, d)
    PROVE  /\ Planned(rows, ids) \subseteq LiveIn(rows) /\ ClosedIn(rows, Planned(rows, ids))
           /\ ids \cap LiveIn(rows) \subseteq Planned(rows, ids)
           /\ \A d \in Planned(rows, ids) : d \in TopsIn(rows, ids) <=> rows[d].parent \notin Planned(rows, ids)
<1> DEFINE plan == Planned(rows, ids)
           tops == TopsIn(rows, ids)
<1>1. \A d : d \in plan <=> \E t \in tops : d \in SubtreeIn(rows, t)
  BY DEF Planned
<1> HIDE DEF plan
<1>2. plan \subseteq LiveIn(rows)
  BY <1>1, SubtreeLeast
<1>3. ClosedIn(rows, plan)
  <2> SUFFICES ASSUME NEW d \in LiveIn(rows), rows[d].parent \in plan PROVE d \in plan
    BY DEF ClosedIn
  <2>1. PICK t \in tops : rows[d].parent \in SubtreeIn(rows, t)
    BY <1>1
  <2>2. d \in SubtreeIn(rows, t)
    BY <2>1, SubtreeLeast DEF ClosedIn
  <2> QED
    BY <1>1, <2>2
<1>4. ids \cap LiveIn(rows) \subseteq plan
  BY <1>1, TopsCover
<1>5. ASSUME NEW d \in plan PROVE d \in tops <=> rows[d].parent \notin plan
  <2>1. ASSUME d \in tops, rows[d].parent \in plan PROVE FALSE
    <3>0. d \in ids \cap LiveIn(rows)
      BY <2>1 DEF TopsIn
    <3>1. PICK t \in tops : rows[d].parent \in SubtreeIn(rows, t)
      BY <2>1, <1>1
    <3>2. CASE t = d
      BY <3>0, <3>1, <3>2
    <3>3. CASE t # d
      <4>1. d \in SubtreeIn(rows, t) /\ t \in ids \ {d}
        BY <3>0, <3>1, <3>3, SubtreeLeast DEF ClosedIn, TopsIn
      <4> QED
        BY <2>1, <4>1 DEF TopsIn
    <3> QED
      BY <3>2, <3>3
  <2>2. ASSUME d \notin tops PROVE rows[d].parent \in plan
    <3>1. PICK t \in tops : d \in SubtreeIn(rows, t)
      BY <1>1
    <3>2. rows[d].parent \in SubtreeIn(rows, t)
      BY <2>2, <3>1, SubtreeParent
    <3> QED
      BY <1>1, <3>2
  <2> QED
    BY <2>1, <2>2
<1> QED
  BY <1>2, <1>3, <1>4, <1>5 DEF plan

\* The subtrees that Move and MoveToTrash read.
LEMMA PlanRead ==
    ASSUME TreeInv, NEW ids \in SUBSET FolderIds, QueryEnds(ids)
    PROVE  /\ UNION {FetchFolderSubtree(d) : d \in FilterCoveredFolderIds(ids)} = Planned(folders, ids)
           /\ \A d \in ids \cap LiveIn(folders) : folders[d].parent \notin SubtreeIn(folders, d)
<1>1. FilterCoveredFolderIds(ids) = TopsIn(folders, ids) /\ LiveFolders = LiveIn(folders)
      /\ \A d : FetchFolderSubtree(d) = SubtreeIn(folders, d)
  BY QueriesAreIn
<1>2. {FetchFolderSubtree(d) : d \in FilterCoveredFolderIds(ids)} = {SubtreeIn(folders, d) : d \in TopsIn(folders, ids)}
  BY <1>1
<1> QED
  BY <1>1, <1>2 DEF QueryEnds, Planned

LEMMA MovePlanInv ==
    ASSUME TreeInv, NEW r \in Requests, MovePlan(r)
    PROVE  TreeInv'
<1> DEFINE ids == treq[r].folders
           tops == FilterCoveredFolderIds(ids)
           below == UNION {FetchFolderSubtree(d) : d \in tops}
           q == [treq[r] EXCEPT !.pc = "commit", !.folders = tops, !.plan = below]
<1>0. treq[r].pc = "plan" /\ TreeTyped /\ QueryEnds(ids) /\ ids \in SUBSET FolderIds /\ AskedKnown(r)
  BY DEF MovePlan, TreeInv, TreeTyped, TreeRequest, RequestReady
<1>1. CASE Refused(r)
  BY <1>0, <1>1, RefusedInv
<1>2. CASE /\ treq' = [treq EXCEPT ![r].pc = "commit", ![r].folders = tops, ![r].plan = below]
           /\ UNCHANGED <<folders, files, trash, rowLock, uploaded>>
  <2>1. tops = TopsIn(folders, ids) /\ below = Planned(folders, ids)
    BY <1>0, PlanRead, QueriesAreIn
  <2>2. tops \subseteq ids /\ tops \subseteq below /\ below \subseteq FolderIds
    <3>1. tops \subseteq ids \cap LiveIn(folders)
      BY <2>1 DEF TopsIn
    <3>2. below \subseteq LiveIn(folders) /\ ids \cap LiveIn(folders) \subseteq below
      BY <1>0, <2>1, PlanRead, PlannedIs
    <3> QED
      BY <3>1, <3>2 DEF LiveIn
  <2> HIDE DEF tops, below
  <2>3. q \in TreeRequest /\ q.pc = "commit" /\ q.folders = tops /\ q.plan = below
    BY <1>0, <2>2 DEF TreeTyped, TreeRequest, TreeSteps
  <2>4. treq' = [treq EXCEPT ![r] = q] /\ treq'[r] = q
    BY <1>0, <1>2 DEF TreeTyped, TreeRequest
  <2> HIDE DEF q
  <2>5. RequestReady(r)'
    BY <1>0, <1>2, <2>2, <2>3, <2>4 DEF RequestReady, AskedKnown, CountingOwn, MovePlanned, DeletionReady
  <2> QED
    BY <1>0, <1>2, <2>3, <2>4, <2>5, OwnStep DEF TreeTyped
<1> QED
  BY <1>1, <1>2 DEF MovePlan

LEMMA TrashDiscoverInv ==
    ASSUME TreeInv, NEW r \in Requests, TrashDiscover(r)
    PROVE  TreeInv'
<1> DEFINE ids == treq[r].folders
           below == UNION {FetchFolderSubtree(d) : d \in FilterCoveredFolderIds(ids)}
           found == FetchFilesInFolders(below)
           pc == IF \A d \in below : rowLock[d] = r THEN "delete" ELSE "stabilize"
           q == [treq[r] EXCEPT !.plan = below, !.found = found, !.pc = pc]
<1>0. treq[r].pc = "discover" /\ TreeTyped /\ QueryEnds(ids) /\ ids \in SUBSET FolderIds /\ AskedKnown(r)
  BY DEF TrashDiscover, TreeInv, TreeTyped, TreeRequest, RequestReady
<1>1. treq' = [treq EXCEPT ![r] = q] /\ UNCHANGED <<folders, files, trash, rowLock, uploaded>>
  BY DEF TrashDiscover
<1>2. below = Planned(folders, ids)
  BY <1>0, PlanRead
<1>3. /\ below \subseteq LiveIn(folders) /\ ClosedIn(folders, below)
      /\ ids \cap LiveIn(folders) \subseteq below
      /\ \A d \in below : d \in TopsIn(folders, ids) <=> folders[d].parent \notin below
  <2>1. \A d \in ids \cap LiveIn(folders) : folders[d].parent \notin SubtreeIn(folders, d)
    BY <1>0, PlanRead
  <2> HIDE DEF below, ids
  <2> QED
    BY <1>0, <1>2, <2>1, PlannedIs
<1> HIDE DEF below
<1>4. found \subseteq FileIds /\ \A f \in FileIds : files[f].st = "live" /\ files[f].folder \in below => f \in found
  BY DEF FetchFilesInFolders, LiveFiles
<1> HIDE DEF found
<1>5. pc \in {"delete", "stabilize"} /\ (pc = "delete" => \A d \in below : rowLock[d] = r)
  OBVIOUS
<1> HIDE DEF pc
<1>6. below \subseteq FolderIds /\ pc \in TreeSteps /\ treq[r] \in TreeRequest
  BY <1>0, <1>3, <1>5 DEF LiveIn, TreeSteps, TreeTyped
<1>7. q \in TreeRequest /\ q.pc = pc /\ q.folders = ids /\ q.plan = below /\ q.found = found
  BY <1>4, <1>6 DEF TreeRequest
<1> HIDE DEF q
<1>8. treq'[r] = q
  BY <1>0, <1>1 DEF TreeTyped
<1>9. DeletionReady(r)'
  <2> SUFFICES ASSUME pc = "delete" PROVE DeletionReady(r)'
    BY <1>7, <1>8 DEF DeletionReady
  <2>1. \A d \in below : folders[d].st = "live" /\ rowLock[d] = r
    BY <1>3, <1>5 DEF LiveIn
  <2> QED
    BY <1>1, <1>3, <1>4, <1>7, <1>8, <2>1 DEF DeletionReady
<1>10. RequestReady(r)'
  BY <1>0, <1>1, <1>5, <1>7, <1>8, <1>9 DEF RequestReady, AskedKnown, CountingOwn, MovePlanned
<1> QED
  BY <1>0, <1>1, <1>5, <1>7, <1>10, OwnStep DEF TreeTyped

\* What MoveCommit writes when it is not refused.
LEMMA MoveWrites ==
    ASSUME TreeInv, NEW r \in Requests, NEW mf, mf = MovedFiles(r), NEW md, md = MovedFolders(r),
           treq[r].pc = "commit",
           NEW written, written = (IF md = {} THEN {} ELSE treq[r].plan)
                   \cup {folders[d].parent : d \in md} \cup FilesRows(r)
                   \cup (IF md = {} THEN {} ELSE {treq[r].target}),
           CanLock(r, written), \A d \in written : Exists(d)
    PROVE  /\ mf \subseteq FileIds /\ \A f \in mf : files[f].st = "live" /\ files[f].folder # treq[r].target
           /\ md \subseteq LiveIn(folders) /\ \A d \in md : folders[d].parent # treq[r].target /\ ~HeldFrom(r, d)
           /\ md # {} \/ mf # {} => ThereIn(folders, treq[r].target) /\ ~HeldFrom(r, treq[r].target)
<1>1. mf \subseteq FileIds /\ \A f \in mf : files[f].st = "live" /\ files[f].folder # treq[r].target
  BY DEF MovedFiles, LiveFiles
<1>2. md \subseteq treq[r].folders /\ \A d \in md : folders[d].parent # treq[r].target
  BY DEF MovedFolders
<1>3. treq[r].folders \subseteq treq[r].plan /\ treq[r].plan \subseteq FolderIds
  BY DEF TreeInv, RequestReady, MovePlanned, TreeTyped, TreeRequest
<1>4. \A d \in md : d \in written /\ d \in FolderIds /\ d # Root
  BY <1>2, <1>3, FolderIdAssumption
<1>5. \A d \in md : d \in LiveIn(folders) /\ ~HeldFrom(r, d)
  BY <1>4 DEF Exists, LiveFolders, LiveIn, CanLock, HeldFrom
<1>6. md # {} \/ mf # {} => treq[r].target \in written
  BY DEF FilesRows
<1>7. md # {} \/ mf # {} => ThereIn(folders, treq[r].target) /\ ~HeldFrom(r, treq[r].target)
  BY <1>6 DEF Exists, LiveFolders, LiveIn, CanLock, HeldFrom, ThereIn
<1> QED
  BY <1>1, <1>2, <1>5, <1>7

LEMMA MoveCommitInv ==
    ASSUME TreeInv, NEW r \in Requests, MoveCommit(r)
    PROVE  TreeInv'
<1> DEFINE p == treq[r].target
           mf == MovedFiles(r)
           md == MovedFolders(r)
           written == (IF md = {} THEN {} ELSE treq[r].plan)
                   \cup {folders[d].parent : d \in md} \cup FilesRows(r)
                   \cup (IF md = {} THEN {} ELSE {p})
           leftF(d) == {f \in mf : files[f].folder = d}
           leftD(d) == {e \in md : folders[e].parent = d}
           left == [d \in FolderIds |-> Cardinality(leftF(d)) + Cardinality(leftD(d))]
           came == [d \in FolderIds |-> IF d = p THEN Cardinality(mf) + Cardinality(md) ELSE 0]
           rows == [d \in FolderIds |-> IF d \in md THEN [folders[d] EXCEPT !.parent = p] ELSE folders[d]]
<1>0. treq[r].pc = "commit" /\ CanLock(r, written) /\ TreeTyped /\ p \in Parents
  BY DEF MoveCommit, TreeInv, TreeTyped, TreeRequest
<1>1. CASE Refused(r)
  BY <1>0, <1>1, RefusedInv
<1>2. CASE /\ \A d \in written : Exists(d)
           /\ folders' = Counted(rows, came, left)
           /\ files' = [f \in FileIds |-> IF f \in mf THEN [files[f] EXCEPT !.folder = p] ELSE files[f]]
           /\ Ends(r) /\ UNCHANGED <<trash, uploaded>>
  <2>1. /\ mf \subseteq FileIds /\ \A f \in mf : files[f].st = "live" /\ files[f].folder # p
        /\ md \subseteq LiveIn(folders) /\ \A d \in md : folders[d].parent # p /\ ~HeldFrom(r, d)
        /\ md # {} \/ mf # {} => ThereIn(folders, p) /\ ~HeldFrom(r, p)
    BY <1>0, <1>2, MoveWrites
  <2> HIDE DEF mf, md, written, p
  <2>2. md \subseteq FolderIds /\ IsFiniteSet(mf) /\ IsFiniteSet(md)
    <3>1. mf \in SUBSET FileIds /\ md \in SUBSET FolderIds
      BY <2>1 DEF LiveIn
    <3> QED
      BY <3>1, FS_Subset, FolderIdAssumption, FileIdAssumption
  <2>3. /\ rows \in [FolderIds -> FolderRow]
        /\ \A d \in FolderIds : rows[d].st = folders[d].st /\ rows[d].count = folders[d].count
        /\ \A d \in md : rows[d].parent = p
        /\ \A d \in FolderIds \ md : rows[d].parent = folders[d].parent
    BY <1>0, <2>2 DEF TreeTyped, FolderRow
  <2>4. /\ files' \in [FileIds -> FileRow]
        /\ \A f \in FileIds : files'[f].st = files[f].st
        /\ \A f \in mf : files'[f].folder = p
        /\ \A f \in FileIds \ mf : files'[f].folder = files[f].folder
    BY <1>0, <1>2, <2>1 DEF TreeTyped, FileRow
  <2>5. ASSUME NEW d PROVE Cardinality(leftF(d)) \in Nat /\ Cardinality(leftD(d)) \in Nat
    <3>1. leftF(d) \in SUBSET mf /\ leftD(d) \in SUBSET md
      OBVIOUS
    <3> QED
      BY <3>1, <2>2, FS_Subset, FS_CardinalityType
  <2>6. Cardinality(mf) \in Nat /\ Cardinality(md) \in Nat
    BY <2>2, FS_CardinalityType
  <2>7. left \in [FolderIds -> Nat] /\ came \in [FolderIds -> Nat]
    <3> HIDE DEF leftF, leftD
    <3> QED
      BY <2>5, <2>6
  <2> HIDE DEF rows
  <2>8. /\ folders' \in [FolderIds -> FolderRow]
        /\ \A d \in FolderIds : /\ folders'[d].st = rows[d].st /\ folders'[d].parent = rows[d].parent
              /\ folders'[d].count = IF rows[d].count + came[d] > left[d] THEN rows[d].count + came[d] - left[d] ELSE 0
        /\ LiveIn(folders') = LiveIn(rows) /\ \A d : FoldersIn(folders', d) = FoldersIn(rows, d)
    <3> HIDE DEF came, left
    <3> QED
      BY <1>2, <2>3, <2>7, CountedRows
  <2>9. LiveIn(rows) = LiveIn(folders)
    BY <2>3 DEF LiveIn
  <2>10. ASSUME NEW e \in LiveIn(folders)
         PROVE  folders'[e].count = Cardinality(FoldersIn(folders', e)) + Cardinality(FilesIn(files', e))
    <3> DEFINE newD == IF e = p THEN md ELSE {}
               newF == IF e = p THEN mf ELSE {}
    <3>0. e \in FolderIds /\ folders[e].count = Cardinality(FoldersIn(folders, e)) + Cardinality(FilesIn(files, e))
      BY DEF TreeInv, CountsIn, LiveIn
    <3>1. leftD(e) \in SUBSET FoldersIn(folders, e) /\ leftF(e) \in SUBSET FilesIn(files, e)
      BY <2>1 DEF FoldersIn, FilesIn
    <3>2. newD \cap FoldersIn(folders, e) = {} /\ newF \cap FilesIn(files, e) = {}
      BY <2>1 DEF FoldersIn, FilesIn
    <3>3. IsFiniteSet(newD) /\ IsFiniteSet(newF) /\ came[e] = Cardinality(newF) + Cardinality(newD)
      BY <3>0, <2>2, FS_EmptySet
    <3>4. left[e] = Cardinality(leftF(e)) + Cardinality(leftD(e))
      BY <3>0
    <3>5. FoldersIn(folders', e) = (FoldersIn(folders, e) \ leftD(e)) \cup newD
      <4>1. \A c : c \in FoldersIn(rows, e) <=> (c \in FoldersIn(folders, e) /\ c \notin leftD(e)) \/ c \in newD
        <5>1. \A c \in LiveIn(folders) : c \notin md => rows[c].parent = folders[c].parent
          BY <2>3 DEF LiveIn
        <5> QED
          BY <2>1, <2>3, <2>9, <5>1 DEF FoldersIn
      <4> QED
        BY <2>8, <4>1
    <3>6. FilesIn(files', e) = (FilesIn(files, e) \ leftF(e)) \cup newF
      <4>1. \A f : f \in FilesIn(files', e) <=> (f \in FilesIn(files, e) /\ f \notin leftF(e)) \/ f \in newF
        BY <2>1, <2>4 DEF FilesIn
      <4> QED
        BY <4>1
    <3>7. folders'[e].count = IF folders[e].count + came[e] > left[e] THEN folders[e].count + came[e] - left[e] ELSE 0
      BY <3>0, <2>3, <2>8
    <3> HIDE DEF newD, newF, leftF, leftD, came, left
    <3>8. folders \in [FolderIds -> FolderRow]
      BY <1>0 DEF TreeTyped
    <3> QED
      BY <3>0, <3>1, <3>2, <3>3, <3>4, <3>5, <3>6, <3>7, <3>8, CountFollows
  <2>11. CountsIn(folders', files')
    BY <2>8, <2>9, <2>10 DEF CountsIn
  <2>12. WholeIn(folders', files', uploaded')
    <3>1. ASSUME NEW d \in LiveIn(folders') PROVE ThereIn(folders', folders'[d].parent)
      <4>1. d \in LiveIn(folders) /\ d \in FolderIds
        BY <2>8, <2>9 DEF LiveIn
      <4>2. CASE d \in md
        BY <4>1, <4>2, <2>1, <2>3, <2>8, <2>9 DEF ThereIn
      <4>3. CASE d \notin md
        BY <4>1, <4>3, <2>3, <2>8, <2>9 DEF ThereIn, TreeInv, WholeIn
      <4> QED
        BY <4>2, <4>3
    <3>2. ASSUME NEW f \in FileIds, files'[f].st = "live" PROVE ThereIn(folders', files'[f].folder) \/ f \in uploaded
      <4>2. CASE f \in mf
        BY <4>2, <2>1, <2>4, <2>8, <2>9 DEF ThereIn
      <4>3. CASE f \notin mf
        BY <3>2, <4>3, <2>4, <2>8, <2>9 DEF ThereIn, TreeInv, WholeIn
      <4> QED
        BY <4>2, <4>3
    <3> QED
      BY <1>2, <3>1, <3>2 DEF WholeIn
  <2>13. FolderKnown'
    <3> SUFFICES ASSUME NEW f \in FileIds, files'[f].st \in {"pending", "live"}
                 PROVE  files'[f].folder = Root \/ folders'[files'[f].folder].st # "free"
      BY DEF FolderKnown
    <3>1. CASE f \in mf
      <4>1. files'[f].folder = p /\ ThereIn(folders, p)
        BY <3>1, <2>1, <2>4
      <4>2. p \in LiveIn(folders) => p \in FolderIds /\ folders'[p].st = "live"
        BY <2>3, <2>8 DEF LiveIn
      <4> QED
        BY <4>1, <4>2 DEF ThereIn
    <3>2. CASE f \notin mf
      <4>1. files'[f].folder = files[f].folder /\ files[f].st \in {"pending", "live"} /\ files[f].folder \in Parents
        BY <3>2, <2>4, <1>0 DEF TreeTyped, FileRow
      <4>2. files[f].folder = Root \/ folders[files[f].folder].st # "free"
        BY <4>1 DEF TreeInv, FolderKnown
      <4> QED
        BY <4>1, <4>2, <2>3, <2>8 DEF Parents
    <3> QED
      BY <3>1, <3>2
  <2>14. RowsSpared(r)
    <3>1. \A d \in FolderIds : HeldFrom(r, d) => folders'[d].st = "live" /\ folders'[d].parent = folders[d].parent
      BY <2>1, <2>3, <2>8 DEF HeldFrom, LiveIn
    <3>2. ASSUME NEW d \in LiveIn(folders'), HeldFrom(r, folders'[d].parent)
          PROVE  d \in LiveIn(folders) /\ folders[d].parent = folders'[d].parent
      <4>1. d \in LiveIn(folders) /\ d \in FolderIds
        BY <2>8, <2>9 DEF LiveIn
      <4>2. d \notin md
        <5>1. d \in md => folders'[d].parent = p
          BY <4>1, <2>3, <2>8
        <5> HIDE DEF came, left
        <5> QED
          BY <3>2, <5>1, <2>1
      <4> QED
        BY <4>1, <4>2, <2>3, <2>8
    <3>3. ASSUME NEW f \in FileIds, files'[f].st = "live", HeldFrom(r, files'[f].folder)
          PROVE  files[f].st = "live" /\ files[f].folder = files'[f].folder
      BY <3>3, <2>1, <2>4
    <3>4. \A d \in FolderIds : folders'[d].st = folders[d].st
      BY <2>3, <2>8
    <3>5. \A f \in FileIds : files[f].st = "pending" => files'[f].st = "pending" /\ files'[f].folder = files[f].folder
      BY <2>1, <2>4
    <3> QED
      BY <1>2, <3>1, <3>2, <3>3, <3>4, <3>5 DEF RowsSpared
  <2>15. \A t \in trash' : SnapshotSound(t)
    BY <1>2 DEF TreeInv
  <2> QED
    BY <1>2, <2>4, <2>8, <2>11, <2>12, <2>13, <2>14, <2>15, EndedStep
<1> QED
  BY <1>1, <1>2 DEF MoveCommit

LEMMA FileSnapshotSound ==
    ASSUME TreeInv, NEW f \in FileIds
    PROVE  SnapshotSound(FileSnapshot(f))
BY DEF TreeInv, TreeTyped, FileRow, SnapshotSound, FileSnapshot

\* A subtree under the locks of its deletion is copied with all that is in it.
LEMMA FolderSnapshotSound ==
    ASSUME TreeInv, NEW plan \in SUBSET FolderIds, ClosedIn(folders, plan), plan \subseteq LiveIn(folders),
           NEW d \in plan, folders[d].parent \notin plan,
           NEW ds, ds = SubtreeIn(folders, d),
           NEW fs, fs = {f \in FileIds : files[f].st = "live" /\ files[f].folder \in ds}
    PROVE  SnapshotSound(FolderSnapshot(d, ds, fs))
<1> DEFINE t == FolderSnapshot(d, ds, fs)
<1>1. /\ t.kind = "folder" /\ t.parent = folders[d].parent /\ t.name = folders[d].name /\ t.root = d
      /\ t.folders = [c \in ds |-> [parent |-> folders[c].parent, name |-> folders[c].name,
                                    count |-> folders[c].count]]
      /\ t.files = [f \in fs |-> [folder |-> files[f].folder, name |-> files[f].name]]
  BY DEF FolderSnapshot
<1> HIDE DEF t
<1>2. /\ DOMAIN t.folders = ds /\ DOMAIN t.files = fs
      /\ \A o \in ds : /\ t.folders[o].parent = folders[o].parent /\ t.folders[o].name = folders[o].name
                       /\ t.folders[o].count = folders[o].count
      /\ \A f \in fs : t.files[f].folder = files[f].folder /\ t.files[f].name = files[f].name
  BY <1>1
<1>3. /\ ds \subseteq LiveIn(folders) /\ ClosedIn(folders, ds) /\ d \in ds /\ ds \subseteq plan
  BY SubtreeLeast
<1>4. ds \subseteq FolderIds /\ fs \subseteq FileIds
  BY <1>3 DEF LiveIn
<1>5. \A o \in ds : o # d => folders[o].parent \in ds
  BY SubtreeParent
<1>6. TreeTyped
  BY DEF TreeInv
<1>7. ASSUME NEW o \in ds
      PROVE  t.folders[o].count = Cardinality(FoldersOf(t, o)) + Cardinality(FilesBelow(t, o))
  <2>1. \A c : c \in FoldersIn(folders, o) <=> c \in FoldersOf(t, o)
    BY <1>1, <1>2, <1>3 DEF FoldersIn, FoldersOf, ClosedIn
  <2>2. \A f : f \in FilesIn(files, o) <=> f \in FilesBelow(t, o)
    BY <1>2 DEF FilesIn, FilesBelow
  <2>3. FoldersOf(t, o) = FoldersIn(folders, o) /\ FilesBelow(t, o) = FilesIn(files, o)
    BY <2>1, <2>2 DEF FoldersIn, FilesIn, FoldersOf, FilesBelow
  <2>4. folders[o].count = Cardinality(FoldersIn(folders, o)) + Cardinality(FilesIn(files, o))
    BY <1>3 DEF TreeInv, CountsIn
  <2> QED
    BY <1>2, <2>3, <2>4
<1>8. t.parent \in Parents /\ t.name \in Names
  BY <1>1, <1>3, <1>4, <1>6 DEF TreeTyped, FolderRow
<1>9. \A o \in ds : t.folders[o].name \in Names /\ (o # t.root => t.folders[o].parent \in ds)
  BY <1>1, <1>2, <1>4, <1>5, <1>6 DEF TreeTyped, FolderRow
<1>10. \A f \in fs : t.files[f].folder \in ds /\ t.files[f].name \in Names
  BY <1>2, <1>4, <1>6 DEF TreeTyped, FileRow
<1>11. SnapshotSound(t)
  BY <1>1, <1>2, <1>3, <1>4, <1>7, <1>8, <1>9, <1>10 DEF SnapshotSound
<1> QED
  BY <1>11 DEF t

LEMMA TrashDeleteInv ==
    ASSUME TreeInv, NEW r \in Requests, TrashDelete(r)
    PROVE  TreeInv'
<1> DEFINE plan     == treq[r].plan
           tops     == FilterCoveredFolderIds(treq[r].folders)
           covered  == {f \in (treq[r].found \cup treq[r].files) \cap LiveFiles : files[f].folder \in plan}
           explicit == (treq[r].files \cap LiveFiles) \ covered
           leftF(d) == {f \in explicit : files[f].folder = d}
           leftD(d) == {e \in tops : folders[e].parent = d}
           left     == [d \in FolderIds |-> Cardinality(leftF(d)) + Cardinality(leftD(d))]
           inside(d) == FetchFolderSubtree(d)
           rows     == [d \in FolderIds |-> IF d \in plan THEN [folders[d] EXCEPT !.st = "gone"] ELSE folders[d]]
           FileTrash == {FileSnapshot(f) : f \in explicit}
           FolderTrash == {FolderSnapshot(d, inside(d), {f \in covered : files[f].folder \in inside(d)}) : d \in tops}
<1>0. treq[r].pc = "delete" /\ TreeTyped
  BY DEF TrashDelete, TreeInv
<1>1. CASE Refused(r)
  BY <1>0, <1>1, RefusedInv
<1>2. CASE /\ trash' = trash \cup FileTrash \cup FolderTrash
           /\ folders' = Counted(rows, None, left)
           /\ files' = [f \in FileIds |->
                 IF f \in covered \cup explicit THEN [files[f] EXCEPT !.st = "gone"] ELSE files[f]]
           /\ Ends(r) /\ UNCHANGED uploaded
  <2>1. tops = TopsIn(folders, treq[r].folders) /\ \A d : inside(d) = SubtreeIn(folders, d)
    BY QueriesAreIn
  <2>2. /\ plan \subseteq FolderIds /\ plan \subseteq LiveIn(folders) /\ ClosedIn(folders, plan)
        /\ \A d \in plan : rowLock[d] = r
        /\ tops \subseteq plan /\ \A d \in plan : d \in tops <=> folders[d].parent \notin plan
        /\ \A f \in FileIds : files[f].st = "live" /\ files[f].folder \in plan => f \in treq[r].found
    <3>1. DeletionReady(r) /\ plan \subseteq FolderIds
      BY <1>0 DEF TreeInv, RequestReady, TreeTyped, TreeRequest
    <3>2. tops \subseteq treq[r].folders \cap LiveIn(folders)
      BY <2>1 DEF TopsIn
    <3> QED
      BY <1>0, <2>1, <3>1, <3>2 DEF DeletionReady, LiveIn
  <2> HIDE DEF tops
  <2>3. /\ \A f : f \in covered <=> f \in FileIds /\ files[f].st = "live" /\ files[f].folder \in plan
        /\ \A f \in explicit : f \in FileIds /\ files[f].st = "live" /\ files[f].folder \notin plan
    BY <2>2 DEF LiveFiles
  <2> HIDE DEF covered, explicit, inside
  <2>4. /\ rows \in [FolderIds -> FolderRow]
        /\ \A d \in FolderIds : rows[d].parent = folders[d].parent /\ rows[d].count = folders[d].count
        /\ \A d \in plan : rows[d].st = "gone"
        /\ \A d \in FolderIds \ plan : rows[d].st = folders[d].st
    BY <1>0, <2>2 DEF TreeTyped, FolderRow
  <2>5. /\ files' \in [FileIds -> FileRow]
        /\ \A f \in FileIds : files'[f].folder = files[f].folder
        /\ \A f \in FileIds : f \in covered \cup explicit => files'[f].st = "gone"
        /\ \A f \in FileIds : f \notin covered \cup explicit => files'[f].st = files[f].st
    BY <1>0, <1>2 DEF TreeTyped, FileRow
  <2>6. ASSUME NEW d PROVE Cardinality(leftF(d)) \in Nat /\ Cardinality(leftD(d)) \in Nat
    <3>1. leftF(d) \in SUBSET FileIds /\ leftD(d) \in SUBSET FolderIds
      BY <2>2, <2>3
    <3> QED
      BY <3>1, FolderIdAssumption, FileIdAssumption, FS_Subset, FS_CardinalityType
  <2>7. left \in [FolderIds -> Nat]
    <3> HIDE DEF leftF, leftD
    <3> QED
      BY <2>6
  <2> HIDE DEF rows
  <2>8. /\ folders' \in [FolderIds -> FolderRow]
        /\ \A d \in FolderIds : /\ folders'[d].st = rows[d].st /\ folders'[d].parent = rows[d].parent
              /\ folders'[d].count = IF rows[d].count + None[d] > left[d] THEN rows[d].count + None[d] - left[d] ELSE 0
        /\ LiveIn(folders') = LiveIn(rows) /\ \A d : FoldersIn(folders', d) = FoldersIn(rows, d)
    <3> HIDE DEF left
    <3>1. None \in [FolderIds -> Nat]
      BY OneNone
    <3> QED
      BY <1>2, <2>4, <2>7, <3>1, CountedRows
  <2>9. LiveIn(folders') = LiveIn(folders) \ plan /\ LiveIn(rows) = LiveIn(folders) \ plan
    BY <2>2, <2>4, <2>8 DEF LiveIn
  <2>10. ASSUME NEW e \in LiveIn(folders')
         PROVE  folders'[e].count = Cardinality(FoldersIn(folders', e)) + Cardinality(FilesIn(files', e))
    <3>0. /\ e \in LiveIn(folders) /\ e \notin plan /\ e \in FolderIds
          /\ folders[e].count = Cardinality(FoldersIn(folders, e)) + Cardinality(FilesIn(files, e))
      BY <2>9 DEF TreeInv, CountsIn, LiveIn
    <3>1. leftD(e) \in SUBSET FoldersIn(folders, e) /\ leftF(e) \in SUBSET FilesIn(files, e)
      BY <2>2, <2>3 DEF FoldersIn, FilesIn
    <3>2. {} \cap FoldersIn(folders, e) = {} /\ {} \cap FilesIn(files, e) = {} /\ IsFiniteSet({})
      BY FS_EmptySet
    <3>3. None[e] = Cardinality({}) + Cardinality({})
      BY <3>0, OneNone, FS_EmptySet
    <3>4. left[e] = Cardinality(leftF(e)) + Cardinality(leftD(e))
      BY <3>0
    <3>5. FoldersIn(folders', e) = (FoldersIn(folders, e) \ leftD(e)) \cup {}
      <4>1. \A c \in LiveIn(folders) : rows[c].parent = folders[c].parent
        BY <2>4 DEF LiveIn
      <4>2. \A c : c \in FoldersIn(rows, e) <=> c \in FoldersIn(folders, e) /\ c \notin leftD(e)
        BY <2>2, <2>9, <3>0, <4>1 DEF FoldersIn
      <4> QED
        BY <2>8, <4>2
    <3>6. FilesIn(files', e) = (FilesIn(files, e) \ leftF(e)) \cup {}
      <4>1. \A f : f \in FilesIn(files', e) <=> f \in FilesIn(files, e) /\ f \notin leftF(e)
        BY <2>3, <2>5, <3>0 DEF FilesIn
      <4> QED
        BY <4>1
    <3>7. folders'[e].count = IF folders[e].count + None[e] > left[e] THEN folders[e].count + None[e] - left[e] ELSE 0
      BY <3>0, <2>4, <2>8
    <3>8. folders \in [FolderIds -> FolderRow]
      BY <1>0 DEF TreeTyped
    <3> HIDE DEF leftF, leftD, left
    <3> QED
      BY <3>0, <3>1, <3>2, <3>3, <3>4, <3>5, <3>6, <3>7, <3>8, CountFollows
  <2>11. CountsIn(folders', files')
    BY <2>10 DEF CountsIn
  <2>12. WholeIn(folders', files', uploaded')
    <3>1. ASSUME NEW d \in LiveIn(folders') PROVE ThereIn(folders', folders'[d].parent)
      <4>1. d \in LiveIn(folders) /\ d \notin plan /\ d \in FolderIds
        BY <2>9 DEF LiveIn
      <4>2. ThereIn(folders, folders[d].parent) /\ folders[d].parent \notin plan
        BY <4>1, <2>2 DEF TreeInv, WholeIn, ClosedIn
      <4> QED
        BY <4>1, <4>2, <2>4, <2>8, <2>9 DEF ThereIn
    <3>2. ASSUME NEW f \in FileIds, files'[f].st = "live" PROVE ThereIn(folders', files'[f].folder) \/ f \in uploaded
      <4>1. files[f].st = "live" /\ files[f].folder \notin plan
        BY <3>2, <2>3, <2>5
      <4> QED
        BY <4>1, <2>5, <2>9 DEF ThereIn, TreeInv, WholeIn
    <3> QED
      BY <1>2, <3>1, <3>2 DEF WholeIn
  <2>13. FolderKnown'
    <3> SUFFICES ASSUME NEW f \in FileIds, files'[f].st \in {"pending", "live"}
                 PROVE  files'[f].folder = Root \/ folders'[files'[f].folder].st # "free"
      BY DEF FolderKnown
    <3>1. files'[f].folder = files[f].folder /\ files[f].st \in {"pending", "live"} /\ files[f].folder \in Parents
      BY <2>5, <1>0 DEF TreeTyped, FileRow
    <3>2. files[f].folder = Root \/ folders[files[f].folder].st # "free"
      BY <3>1 DEF TreeInv, FolderKnown
    <3> QED
      BY <3>1, <3>2, <2>4, <2>8 DEF Parents
  <2>14. RowsSpared(r)
    <3>1. \A d \in FolderIds : HeldFrom(r, d) => folders'[d].st = "live" /\ folders'[d].parent = folders[d].parent
      BY <2>2, <2>4, <2>8 DEF HeldFrom, LiveIn
    <3>2. \A d \in LiveIn(folders') : d \in LiveIn(folders) /\ folders[d].parent = folders'[d].parent
      BY <2>4, <2>8, <2>9 DEF LiveIn
    <3>3. \A f \in FileIds : files'[f].st = "live" => files[f].st = "live" /\ files[f].folder = files'[f].folder
      BY <2>5
    <3>4. \A d \in FolderIds : folders'[d].st = folders[d].st \/ (folders'[d].st = "gone" /\ folders[d].st = "live")
      BY <2>2, <2>4, <2>8 DEF LiveIn
    <3>5. \A f \in FileIds : files[f].st = "pending" => files'[f].st = "pending" /\ files'[f].folder = files[f].folder
      BY <2>3, <2>5
    <3> QED
      BY <1>2, <3>1, <3>2, <3>3, <3>4, <3>5 DEF RowsSpared
  <2>15. ASSUME NEW t \in trash' PROVE SnapshotSound(t)
    <3>1. CASE t \in trash
      BY <3>1 DEF TreeInv
    <3>2. CASE t \in FileTrash
      BY <3>2, <2>3, FileSnapshotSound
    <3>3. CASE t \in FolderTrash
      <4>1. PICK d \in tops : t = FolderSnapshot(d, inside(d), {f \in covered : files[f].folder \in inside(d)})
        BY <3>3
      <4>2. d \in plan /\ folders[d].parent \notin plan /\ inside(d) = SubtreeIn(folders, d)
        BY <2>1, <2>2
      <4>3. inside(d) \subseteq plan
        BY <4>2, <2>2, SubtreeLeast
      <4>4. {f \in covered : files[f].folder \in inside(d)}
               = {f \in FileIds : files[f].st = "live" /\ files[f].folder \in inside(d)}
        BY <2>3, <4>3
      <4> HIDE DEF covered
      <4> QED
        BY <2>2, <4>1, <4>2, <4>4, FolderSnapshotSound
    <3> QED
      BY <1>2, <3>1, <3>2, <3>3
  <2> QED
    BY <1>2, <2>5, <2>8, <2>11, <2>12, <2>13, <2>14, <2>15, EndedStep
<1> QED
  BY <1>1, <1>2 DEF TrashDelete

\* New ids for old ones are as many.
LEMMA RenumberedCard ==
    ASSUME NEW old, NEW fresh, NEW m \in Renumbering(old, fresh), NEW S \in SUBSET old, IsFiniteSet(S)
    PROVE  Cardinality({m[x] : x \in S}) = Cardinality(S)
<1> DEFINE T == {m[x] : x \in S}
           g == [x \in S |-> m[x]]
<1>0. m \in [old -> fresh] /\ \A a, b \in old : m[a] = m[b] => a = b
  BY DEF Renumbering
<1>1. g \in [S -> T] /\ \A a, b \in S : g[a] = g[b] => a = b
  BY <1>0
<1>2. \A y \in T : \E x \in S : g[x] = y
  OBVIOUS
<1>3. g \in Bijection(S, T)
  BY <1>1, <1>2 DEF Bijection, Injection, Surjection, IsInjective
<1>4. ExistsBijection(S, T)
  BY <1>3 DEF ExistsBijection
<1> QED
  BY <1>4, FS_Bijection

LEMMA RestoredNameIn ==
    ASSUME NEW n \in Names, NEW taken, NEW m \in RestoredName(n, taken)
    PROVE  m \in Names
BY DEF RestoredName

LEMMA RestoreFileInv ==
    ASSUME TreeInv, NEW r \in Requests, treq[r].pc = "idle", NEW t \in trash, t.kind # "folder",
           NEW p, ThereIn(folders, p), p \in Parents, ~HeldFrom(r, p),
           RestoreFile(t, p), trash' = trash \ {t}, Ends(r), uploaded' = uploaded
    PROVE  TreeInv'
<1>0. TreeTyped /\ t.name \in Names /\ t.kind = "file"
  BY DEF TreeInv, SnapshotSound
<1>1. PICK mf \in Renumbering(TrashedFiles(t), FreeFiles) :
         \E n \in RestoredName(t.name, {m \in Names : FileNameTaken(p, m, {})}) :
            /\ folders' = Counted(folders, One(p), None)
            /\ files' = RestoredFiles(t, p, n, <<>>, mf)
  BY DEF RestoreFile
<1>2. PICK n \in RestoredName(t.name, {m \in Names : FileNameTaken(p, m, {})}) :
            /\ folders' = Counted(folders, One(p), None)
            /\ files' = RestoredFiles(t, p, n, <<>>, mf)
  BY <1>1
<1>3. n \in Names
  BY <1>0, <1>2, RestoredNameIn
<1> DEFINE f == mf[t.root]
<1>4. TrashedFiles(t) = {t.root} /\ f \in FileIds /\ files[f].st = "free" /\ {mf[o] : o \in TrashedFiles(t)} = {f}
  BY <1>0, <1>1 DEF TrashedFiles, Renumbering, FreeFiles
<1>5. files' = [g \in FileIds |-> IF g # f THEN files[g] ELSE [st |-> "live", folder |-> p, name |-> n]]
  BY <1>0, <1>2, <1>4 DEF RestoredFiles
<1> HIDE DEF f
<1>6. /\ files' \in [FileIds -> FileRow] /\ files'[f] = [st |-> "live", folder |-> p, name |-> n]
      /\ \A g \in FileIds : g # f => files'[g] = files[g]
  BY <1>0, <1>3, <1>4, <1>5 DEF TreeTyped, FileRow
<1>7. ASSUME NEW e PROVE FilesIn(files', e) = FilesIn(files, e) \cup (IF e = p THEN {f} ELSE {})
  <2>1. \A g : g \in FilesIn(files', e) <=> g \in FilesIn(files, e) \/ (g = f /\ e = p)
    BY <1>4, <1>6 DEF FilesIn
  <2> QED
    BY <2>1
<1>8. /\ folders' \in [FolderIds -> FolderRow]
      /\ \A e \in FolderIds : /\ folders'[e].st = folders[e].st /\ folders'[e].parent = folders[e].parent
            /\ folders'[e].count = IF folders[e].count + One(p)[e] > None[e]
                                   THEN folders[e].count + One(p)[e] - None[e] ELSE 0
      /\ LiveIn(folders') = LiveIn(folders) /\ \A e : FoldersIn(folders', e) = FoldersIn(folders, e)
  BY <1>0, <1>2, CountedRows, OneNone DEF TreeTyped
<1>9. ASSUME NEW e \in LiveIn(folders)
      PROVE  folders'[e].count = Cardinality(FoldersIn(folders', e)) + Cardinality(FilesIn(files', e))
  <2>1. e \in FolderIds /\ folders[e].count = Cardinality(FoldersIn(folders, e)) + Cardinality(FilesIn(files, e))
    BY DEF TreeInv, CountsIn, LiveIn
  <2>2. f \notin FilesIn(files, e) /\ folders \in [FolderIds -> FolderRow]
    BY <1>0, <1>4 DEF FilesIn, TreeTyped
  <2>3. folders'[e].count = Cardinality(FoldersIn(folders, e))
                            + Cardinality(FilesIn(files, e) \cup (IF e = p THEN {f} ELSE {}))
    BY <2>1, <2>2, <1>8, OneFileMore
  <2> QED
    BY <2>3, <1>7, <1>8
<1>10. CountsIn(folders', files')
  BY <1>8, <1>9 DEF CountsIn
<1>11. WholeIn(folders', files', uploaded')
  <2>1. \A d \in LiveIn(folders') : ThereIn(folders', folders'[d].parent)
    BY <1>8 DEF TreeInv, WholeIn, ThereIn, LiveIn
  <2>2. ASSUME NEW g \in FileIds, files'[g].st = "live" PROVE ThereIn(folders', files'[g].folder) \/ g \in uploaded
    BY <2>2, <1>6, <1>8 DEF TreeInv, WholeIn, ThereIn
  <2> QED
    BY <2>1, <2>2 DEF WholeIn
<1>12. FolderKnown'
  <2> SUFFICES ASSUME NEW g \in FileIds, files'[g].st \in {"pending", "live"}
               PROVE  files'[g].folder = Root \/ folders'[files'[g].folder].st # "free"
    BY DEF FolderKnown
  <2>1. CASE g = f
    BY <2>1, <1>6, <1>8 DEF ThereIn, LiveIn
  <2>2. CASE g # f
    <3>1. files'[g] = files[g] /\ files[g].folder \in Parents
      BY <2>2, <1>0, <1>6 DEF TreeTyped, FileRow
    <3> QED
      BY <3>1, <1>8 DEF TreeInv, FolderKnown, Parents
  <2> QED
    BY <2>1, <2>2
<1>13. RowsSpared(r)
  <2>1. \A d \in LiveIn(folders') : d \in LiveIn(folders) /\ folders[d].parent = folders'[d].parent
    BY <1>8 DEF LiveIn
  <2>2. \A g \in FileIds : files'[g].st = "live" /\ HeldFrom(r, files'[g].folder) =>
           files[g].st = "live" /\ files[g].folder = files'[g].folder
    BY <1>6
  <2>3. \A d \in FolderIds : HeldFrom(r, d) => folders'[d].st = "live"
    BY <1>8 DEF HeldFrom, LiveIn
  <2>4. \A g \in FileIds : files[g].st = "pending" => files'[g] = files[g]
    BY <1>4, <1>6
  <2> QED
    BY <1>8, <2>1, <2>2, <2>3, <2>4 DEF RowsSpared
<1>14. \A u \in trash' : SnapshotSound(u)
  BY DEF TreeInv
<1> QED
  BY <1>6, <1>8, <1>10, <1>11, <1>12, <1>13, <1>14, EndedStep

\* The rows a snapshot comes back as: free ones, one for each of its folders and
\* files; all other rows are left alone.
LEMMA RestoredRows ==
    ASSUME TreeInv, NEW t \in trash, t.kind = "folder", NEW p \in Parents, NEW n \in Names,
           NEW md \in Renumbering(DOMAIN t.folders, FreeFolders), NEW mf \in Renumbering(DOMAIN t.files, FreeFiles)
    PROVE  LET rows == RestoredFolders(t, p, n, md)
               fs   == RestoredFiles(t, p, n, md, mf)
           IN /\ rows \in [FolderIds -> FolderRow] /\ fs \in [FileIds -> FileRow]
              /\ \A o \in DOMAIN t.folders :
                    /\ md[o] \in FolderIds /\ folders[md[o]].st = "free" /\ rows[md[o]].st = "live"
                    /\ rows[md[o]].parent = IF o = t.root THEN p ELSE md[t.folders[o].parent]
                    /\ rows[md[o]].count = t.folders[o].count
              /\ \A d \in FolderIds : d \notin {md[o] : o \in DOMAIN t.folders} => rows[d] = folders[d]
              /\ \A o \in DOMAIN t.files :
                    /\ mf[o] \in FileIds /\ files[mf[o]].st = "free" /\ fs[mf[o]].st = "live"
                    /\ fs[mf[o]].folder = md[t.files[o].folder]
              /\ \A f \in FileIds : f \notin {mf[o] : o \in DOMAIN t.files} => fs[f] = files[f]
<1> DEFINE rows == RestoredFolders(t, p, n, md)
           fs   == RestoredFiles(t, p, n, md, mf)
           old  == DOMAIN t.folders
           oldF == DOMAIN t.files
           of(d)  == CHOOSE o \in old : md[o] = d
           ofF(f) == CHOOSE o \in oldF : mf[o] = f
           row(o) == [st |-> "live", parent |-> IF o = t.root THEN p ELSE md[t.folders[o].parent],
                      name |-> IF o = t.root THEN n ELSE t.folders[o].name, count |-> t.folders[o].count]
           rowF(o) == [st |-> "live", folder |-> md[t.files[o].folder], name |-> t.files[o].name]
<1>0. TreeTyped /\ SnapshotSound(t)
  BY DEF TreeInv
<1>1. /\ md \in [old -> FreeFolders] /\ \A a, b \in old : md[a] = md[b] => a = b
      /\ mf \in [oldF -> FreeFiles] /\ \A a, b \in oldF : mf[a] = mf[b] => a = b
  BY DEF Renumbering
<1>2. /\ \A o \in old : md[o] \in FolderIds /\ folders[md[o]].st = "free" /\ of(md[o]) = o
      /\ \A o \in oldF : mf[o] \in FileIds /\ files[mf[o]].st = "free" /\ ofF(mf[o]) = o
  <2>1. \A o \in old : md[o] \in FolderIds /\ folders[md[o]].st = "free"
    BY <1>1 DEF FreeFolders
  <2>2. \A o \in oldF : mf[o] \in FileIds /\ files[mf[o]].st = "free"
    BY <1>1 DEF FreeFiles
  <2>3. \A o \in old : of(md[o]) = o
    BY <1>1
  <2>4. \A o \in oldF : ofF(mf[o]) = o
    BY <1>1
  <2> QED
    BY <2>1, <2>2, <2>3, <2>4
<1>3. ASSUME NEW o \in old PROVE t.folders[o].count \in Nat
  <2>1. FoldersOf(t, o) \in SUBSET FolderIds /\ FilesBelow(t, o) \in SUBSET FileIds
    BY <1>0 DEF SnapshotSound, FoldersOf, FilesBelow
  <2>2. Cardinality(FoldersOf(t, o)) \in Nat /\ Cardinality(FilesBelow(t, o)) \in Nat
    BY <2>1, FolderIdAssumption, FileIdAssumption, FS_Subset, FS_CardinalityType
  <2>3. t.folders[o].count = Cardinality(FoldersOf(t, o)) + Cardinality(FilesBelow(t, o))
    BY <1>0 DEF SnapshotSound
  <2> QED
    BY <2>2, <2>3
<1>4. rows = [d \in FolderIds |-> IF d \notin {md[o] : o \in old} THEN folders[d] ELSE row(of(d))]
  BY DEF RestoredFolders
<1>5. fs = [f \in FileIds |-> IF f \notin {mf[o] : o \in oldF} THEN files[f] ELSE rowF(ofF(f))]
  BY DEF RestoredFiles, TrashedFiles
<1>6. /\ \A d \in FolderIds : d \notin {md[o] : o \in old} => rows[d] = folders[d]
      /\ \A o \in old : rows[md[o]] = row(o)
  <2> HIDE DEF rows, row, of
  <2> QED
    BY <1>2, <1>4
<1>7. /\ \A f \in FileIds : f \notin {mf[o] : o \in oldF} => fs[f] = files[f]
      /\ \A o \in oldF : fs[mf[o]] = rowF(o)
  <2> HIDE DEF fs, rowF, ofF
  <2> QED
    BY <1>2, <1>5
<1>8. ASSUME NEW o \in old PROVE row(o) \in FolderRow
  <2>1. t.folders[o].name \in Names /\ (o # t.root => t.folders[o].parent \in old)
    BY <1>0 DEF SnapshotSound
  <2>2. o # t.root => md[t.folders[o].parent] \in FolderIds
    BY <1>2, <2>1
  <2> QED
    BY <1>3, <2>1, <2>2 DEF FolderRow, Parents
<1>9. ASSUME NEW o \in oldF PROVE rowF(o) \in FileRow
  <2>1. t.files[o].folder \in old /\ t.files[o].name \in Names
    BY <1>0 DEF SnapshotSound
  <2>2. md[t.files[o].folder] \in FolderIds
    BY <1>2, <2>1
  <2> QED
    BY <2>1, <2>2 DEF FileRow, Parents
<1>10. rows \in [FolderIds -> FolderRow]
  <2>1. \A d \in FolderIds : rows[d] \in FolderRow
    <3> HIDE DEF rows, row
    <3> QED
      BY <1>0, <1>6, <1>8 DEF TreeTyped
  <2>2. rows = [d \in FolderIds |-> rows[d]]
    BY <1>4
  <2> HIDE DEF rows
  <2> QED
    BY <2>1, <2>2
<1>11. fs \in [FileIds -> FileRow]
  <2>1. \A f \in FileIds : fs[f] \in FileRow
    <3> HIDE DEF fs, rowF
    <3> QED
      BY <1>0, <1>7, <1>9 DEF TreeTyped
  <2>2. fs = [f \in FileIds |-> fs[f]]
    BY <1>5
  <2> HIDE DEF fs
  <2> QED
    BY <2>1, <2>2
<1>12. /\ \A o \in old : /\ rows[md[o]].st = "live" /\ rows[md[o]].count = t.folders[o].count
                         /\ rows[md[o]].parent = IF o = t.root THEN p ELSE md[t.folders[o].parent]
       /\ \A o \in oldF : fs[mf[o]].st = "live" /\ fs[mf[o]].folder = md[t.files[o].folder]
  <2> HIDE DEF rows, fs
  <2>1. ASSUME NEW o \in old
        PROVE  /\ rows[md[o]].st = "live" /\ rows[md[o]].count = t.folders[o].count
               /\ rows[md[o]].parent = IF o = t.root THEN p ELSE md[t.folders[o].parent]
    <3>1. rows[md[o]] = row(o)
      BY <1>6
    <3> QED
      BY <3>1
  <2>2. ASSUME NEW o \in oldF PROVE fs[mf[o]].st = "live" /\ fs[mf[o]].folder = md[t.files[o].folder]
    <3>1. fs[mf[o]] = rowF(o)
      BY <1>7
    <3> QED
      BY <3>1
  <2> QED
    BY <2>1, <2>2
<1> HIDE DEF rows, fs
<1>13. /\ rows \in [FolderIds -> FolderRow] /\ fs \in [FileIds -> FileRow]
       /\ \A o \in old :
             /\ md[o] \in FolderIds /\ folders[md[o]].st = "free" /\ rows[md[o]].st = "live"
             /\ rows[md[o]].parent = IF o = t.root THEN p ELSE md[t.folders[o].parent]
             /\ rows[md[o]].count = t.folders[o].count
       /\ \A d \in FolderIds : d \notin {md[o] : o \in old} => rows[d] = folders[d]
       /\ \A o \in oldF : /\ mf[o] \in FileIds /\ files[mf[o]].st = "free" /\ fs[mf[o]].st = "live"
                          /\ fs[mf[o]].folder = md[t.files[o].folder]
       /\ \A f \in FileIds : f \notin {mf[o] : o \in oldF} => fs[f] = files[f]
  BY <1>2, <1>6, <1>7, <1>10, <1>11, <1>12
<1> QED
  BY <1>13 DEF rows, fs

LEMMA RestoreFolderInv ==
    ASSUME TreeInv, NEW r \in Requests, treq[r].pc = "idle", NEW t \in trash, t.kind = "folder",
           NEW p, ThereIn(folders, p), p \in Parents, ~HeldFrom(r, p),
           RestoreFolder(t, p), trash' = trash \ {t}, Ends(r), uploaded' = uploaded
    PROVE  TreeInv'
<1> DEFINE old  == DOMAIN t.folders
           oldF == DOMAIN t.files
<1>0. TreeTyped /\ SnapshotSound(t) /\ TrashedFiles(t) = oldF
  BY DEF TreeInv, TrashedFiles
<1>1. PICK md \in Renumbering(old, FreeFolders), mf \in Renumbering(oldF, FreeFiles) :
         \E n \in RestoredName(t.name, {m \in Names : FolderNameTaken(p, m, {})}) :
            /\ folders' = Counted(RestoredFolders(t, p, n, md), One(p), None)
            /\ files' = RestoredFiles(t, p, n, md, mf)
  BY <1>0 DEF RestoreFolder
<1>2. PICK n \in RestoredName(t.name, {m \in Names : FolderNameTaken(p, m, {})}) :
            /\ folders' = Counted(RestoredFolders(t, p, n, md), One(p), None)
            /\ files' = RestoredFiles(t, p, n, md, mf)
  BY <1>1
<1>3. n \in Names
  BY <1>0, <1>2, RestoredNameIn DEF SnapshotSound
<1> DEFINE rows == RestoredFolders(t, p, n, md)
           ND == {md[o] : o \in old}
           NF == {mf[o] : o \in oldF}
           top == md[t.root]
<1>4. /\ rows \in [FolderIds -> FolderRow] /\ files' \in [FileIds -> FileRow]
      /\ \A o \in old :
            /\ md[o] \in FolderIds /\ folders[md[o]].st = "free" /\ rows[md[o]].st = "live"
            /\ rows[md[o]].parent = IF o = t.root THEN p ELSE md[t.folders[o].parent]
            /\ rows[md[o]].count = t.folders[o].count
      /\ \A d \in FolderIds : d \notin ND => rows[d] = folders[d]
      /\ \A o \in oldF :
            /\ mf[o] \in FileIds /\ files[mf[o]].st = "free" /\ files'[mf[o]].st = "live"
            /\ files'[mf[o]].folder = md[t.files[o].folder]
      /\ \A f \in FileIds : f \notin NF => files'[f] = files[f]
  BY <1>2, <1>3, RestoredRows
<1>5. folders' = Counted(rows, One(p), None)
  BY <1>2
<1> HIDE DEF rows
<1>6. /\ folders' \in [FolderIds -> FolderRow]
      /\ \A e \in FolderIds : /\ folders'[e].st = rows[e].st /\ folders'[e].parent = rows[e].parent
            /\ folders'[e].count = IF rows[e].count + One(p)[e] > None[e]
                                   THEN rows[e].count + One(p)[e] - None[e] ELSE 0
      /\ LiveIn(folders') = LiveIn(rows) /\ \A e : FoldersIn(folders', e) = FoldersIn(rows, e)
  BY <1>4, <1>5, CountedRows, OneNone
<1>7. /\ ND \subseteq FolderIds /\ ND \cap LiveIn(folders) = {} /\ LiveIn(rows) = LiveIn(folders) \cup ND
      /\ p \notin ND /\ Root \notin ND /\ top \in ND
      /\ \A d \in LiveIn(folders) : d \in FolderIds /\ d \notin ND /\ rows[d] = folders[d]
  <2>1. ND \subseteq FolderIds /\ Root \notin ND /\ \A d \in ND : folders[d].st = "free" /\ rows[d].st = "live"
    <3>1. \A d \in ND : d \in FolderIds /\ folders[d].st = "free" /\ rows[d].st = "live"
      BY <1>4
    <3> HIDE DEF ND
    <3> QED
      BY <3>1, FolderIdAssumption
  <2>2. top \in ND
    BY <1>0 DEF SnapshotSound
  <2> HIDE DEF ND, top
  <2>3. ND \cap LiveIn(folders) = {} /\ LiveIn(rows) = LiveIn(folders) \cup ND
    BY <1>4, <2>1 DEF LiveIn
  <2> QED
    BY <1>4, <2>1, <2>2, <2>3 DEF LiveIn, ThereIn
<1>8. /\ \A o \in old : o # t.root => t.folders[o].parent \in old
      /\ \A f \in oldF : t.files[f].folder \in old
      /\ \A a, b \in old : md[a] = md[b] => a = b
      /\ t.root \in old /\ old \in SUBSET FolderIds /\ oldF \in SUBSET FileIds
  BY <1>0 DEF SnapshotSound, Renumbering
<1>9. \A f \in NF : f \in FileIds /\ files[f].st = "free" /\ files'[f].st = "live" /\ files'[f].folder \in ND
  BY <1>4, <1>8
<1>10. \A d \in ND : d # top => rows[d].parent \in ND
  BY <1>4, <1>8
<1>11. rows[top].parent = p
  BY <1>4, <1>8
<1>12. ASSUME NEW e, e \notin ND
       PROVE  /\ FoldersIn(rows, e) = FoldersIn(folders, e) \cup (IF e = p THEN {top} ELSE {})
              /\ FilesIn(files', e) = FilesIn(files, e)
  <2> HIDE DEF ND, NF, top
  <2>1. \A c : c \in FoldersIn(rows, e) <=> c \in FoldersIn(folders, e) \/ (c = top /\ e = p)
    BY <1>7, <1>10, <1>11, <1>12 DEF FoldersIn
  <2>2. \A f : f \in FilesIn(files', e) <=> f \in FilesIn(files, e)
    BY <1>4, <1>9, <1>12 DEF FilesIn
  <2> QED
    BY <2>1, <2>2
<1>13. ASSUME NEW o \in old
       PROVE  /\ FoldersIn(rows, md[o]) = {md[x] : x \in FoldersOf(t, o)}
              /\ FilesIn(files', md[o]) = {mf[x] : x \in FilesBelow(t, o)}
  <2>1. FoldersIn(folders, md[o]) = {} /\ FilesIn(files, md[o]) = {} /\ md[o] \in ND
    BY <1>4, FreeIsEmpty
  <2>2. ASSUME NEW c \in FoldersIn(rows, md[o]) PROVE c \in {md[x] : x \in FoldersOf(t, o)}
    <3>1. c \in LiveIn(rows) /\ rows[c].parent = md[o]
      BY DEF FoldersIn
    <3>2. c \in ND
      BY <1>7, <2>1, <3>1 DEF FoldersIn
    <3>3. PICK x \in old : c = md[x]
      BY <3>2
    <3>4. x # t.root
      BY <1>7, <1>11, <2>1, <3>1, <3>3
    <3>5. t.folders[x].parent = o
      BY <1>4, <1>8, <3>1, <3>3, <3>4
    <3> QED
      BY <3>3, <3>4, <3>5 DEF FoldersOf
  <2>3. ASSUME NEW x \in FoldersOf(t, o) PROVE md[x] \in FoldersIn(rows, md[o])
    <3>1. x \in old /\ x # t.root /\ t.folders[x].parent = o
      BY DEF FoldersOf
    <3>2. md[x] \in LiveIn(rows) /\ rows[md[x]].parent = md[o]
      BY <1>4, <3>1 DEF LiveIn
    <3> QED
      BY <3>2 DEF FoldersIn
  <2>4. ASSUME NEW f \in FilesIn(files', md[o]) PROVE f \in {mf[x] : x \in FilesBelow(t, o)}
    <3>1. f \in FileIds /\ files'[f].st = "live" /\ files'[f].folder = md[o]
      BY DEF FilesIn
    <3>2. f \in NF
      BY <1>4, <2>1, <3>1 DEF FilesIn
    <3>3. PICK x \in oldF : f = mf[x]
      BY <3>2
    <3>4. t.files[x].folder = o
      BY <1>4, <1>8, <3>1, <3>3
    <3> QED
      BY <3>3, <3>4 DEF FilesBelow
  <2>5. ASSUME NEW x \in FilesBelow(t, o) PROVE mf[x] \in FilesIn(files', md[o])
    <3>1. x \in oldF /\ t.files[x].folder = o
      BY DEF FilesBelow
    <3> QED
      BY <1>4, <3>1 DEF FilesIn
  <2> QED
    BY <2>2, <2>3, <2>4, <2>5
<1>14. ASSUME NEW e \in LiveIn(folders)
       PROVE  folders'[e].count = Cardinality(FoldersIn(folders', e)) + Cardinality(FilesIn(files', e))
  <2>1. e \in FolderIds /\ folders[e].count = Cardinality(FoldersIn(folders, e)) + Cardinality(FilesIn(files, e))
    BY DEF TreeInv, CountsIn, LiveIn
  <2>2. top \notin FoldersIn(folders, e) /\ folders \in [FolderIds -> FolderRow]
    BY <1>0, <1>7 DEF FoldersIn, TreeTyped
  <2>3. e \notin ND /\ rows[e] = folders[e]
    BY <1>7
  <2> HIDE DEF top, ND
  <2>4. folders'[e].count = Cardinality(FoldersIn(folders, e) \cup (IF e = p THEN {top} ELSE {}))
                            + Cardinality(FilesIn(files, e))
    BY <2>1, <2>2, <2>3, <1>6, OneFolderMore
  <2> QED
    BY <2>3, <2>4, <1>6, <1>12
<1>15. ASSUME NEW e \in ND
       PROVE  folders'[e].count = Cardinality(FoldersIn(folders', e)) + Cardinality(FilesIn(files', e))
  <2>1. PICK o \in old : e = md[o]
    OBVIOUS
  <2>2. FoldersOf(t, o) \in SUBSET old /\ FilesBelow(t, o) \in SUBSET oldF
    BY DEF FoldersOf, FilesBelow
  <2>3. IsFiniteSet(FoldersOf(t, o)) /\ IsFiniteSet(FilesBelow(t, o))
    BY <1>8, <2>2, FolderIdAssumption, FileIdAssumption, FS_Subset
  <2>4. /\ Cardinality(FoldersIn(folders', e)) = Cardinality(FoldersOf(t, o))
        /\ Cardinality(FilesIn(files', e)) = Cardinality(FilesBelow(t, o))
    <3>1. /\ Cardinality({md[x] : x \in FoldersOf(t, o)}) = Cardinality(FoldersOf(t, o))
          /\ Cardinality({mf[x] : x \in FilesBelow(t, o)}) = Cardinality(FilesBelow(t, o))
      BY <2>2, <2>3, RenumberedCard
    <3>2. FoldersIn(folders', e) = {md[x] : x \in FoldersOf(t, o)} /\ FilesIn(files', e) = {mf[x] : x \in FilesBelow(t, o)}
      BY <1>6, <1>13, <2>1
    <3> QED
      BY <3>1, <3>2
  <2>5. Cardinality(FoldersOf(t, o)) \in Nat /\ Cardinality(FilesBelow(t, o)) \in Nat
    BY <2>3, FS_CardinalityType
  <2>6. rows[e].count = Cardinality(FoldersOf(t, o)) + Cardinality(FilesBelow(t, o))
    BY <1>0, <1>4, <2>1 DEF SnapshotSound
  <2>7. e \in FolderIds /\ e # p
    BY <1>7
  <2>8. One(p)[e] = 0 /\ None[e] = 0
    BY <2>7, OneNone
  <2>9. folders'[e].count = rows[e].count
    BY <1>6, <2>5, <2>6, <2>7, <2>8
  <2> QED
    BY <2>4, <2>6, <2>9
<1>16. CountsIn(folders', files')
  BY <1>6, <1>7, <1>14, <1>15 DEF CountsIn
<1> HIDE DEF ND, NF, top
<1>17. WholeIn(folders', files', uploaded')
  <2>1. ASSUME NEW d \in LiveIn(folders') PROVE ThereIn(folders', folders'[d].parent)
    <3>1. CASE d \in ND
      BY <3>1, <1>6, <1>7, <1>10, <1>11 DEF ThereIn
    <3>2. CASE d \in LiveIn(folders)
      BY <3>2, <1>6, <1>7 DEF TreeInv, WholeIn, ThereIn
    <3> QED
      BY <3>1, <3>2, <1>6, <1>7
  <2>2. ASSUME NEW f \in FileIds, files'[f].st = "live" PROVE ThereIn(folders', files'[f].folder) \/ f \in uploaded
    BY <2>2, <1>4, <1>6, <1>7, <1>9 DEF TreeInv, WholeIn, ThereIn
  <2> QED
    BY <2>1, <2>2 DEF WholeIn
<1>18. \A d \in FolderIds : folders'[d].st = folders[d].st \/ (d \in ND /\ folders[d].st = "free" /\ folders'[d].st = "live")
  <2>1. \A d \in ND : folders[d].st = "free" /\ rows[d].st = "live"
    BY <1>4 DEF ND
  <2> QED
    BY <1>4, <1>6, <2>1
<1>19. FolderKnown'
  <2> SUFFICES ASSUME NEW f \in FileIds, files'[f].st \in {"pending", "live"}
               PROVE  files'[f].folder = Root \/ folders'[files'[f].folder].st # "free"
    BY DEF FolderKnown
  <2>1. CASE f \in NF
    <3>1. files'[f].folder \in LiveIn(folders')
      BY <2>1, <1>6, <1>7, <1>9
    <3> QED
      BY <3>1 DEF LiveIn
  <2>2. CASE f \notin NF
    <3>1. files'[f] = files[f] /\ files[f].folder \in Parents
      BY <2>2, <1>0, <1>4 DEF TreeTyped, FileRow
    <3>2. files[f].folder = Root \/ folders[files[f].folder].st # "free"
      BY <3>1 DEF TreeInv, FolderKnown
    <3> QED
      BY <3>1, <3>2, <1>18 DEF Parents
  <2> QED
    BY <2>1, <2>2
<1>20. RowsSpared(r)
  <2>1. \A d \in FolderIds : HeldFrom(r, d) => folders'[d].st = "live" /\ folders'[d].parent = folders[d].parent
    BY <1>6, <1>7, <1>18 DEF HeldFrom, LiveIn
  <2>2. ASSUME NEW d \in LiveIn(folders'), HeldFrom(r, folders'[d].parent)
        PROVE  d \in LiveIn(folders) /\ folders[d].parent = folders'[d].parent
    <3>1. folders'[d].parent \in LiveIn(folders) /\ folders'[d].parent # p
      BY <2>2 DEF HeldFrom
    <3>2. d \notin ND
      BY <3>1, <1>6, <1>7, <1>10, <1>11
    <3> QED
      BY <3>2, <1>6, <1>7
  <2>3. \A f \in FileIds : files'[f].st = "live" /\ HeldFrom(r, files'[f].folder) =>
           files[f].st = "live" /\ files[f].folder = files'[f].folder
    BY <1>4, <1>7, <1>9 DEF HeldFrom
  <2>4. \A f \in FileIds : files[f].st = "pending" => files'[f] = files[f]
    BY <1>4, <1>9
  <2> QED
    BY <1>18, <2>1, <2>2, <2>3, <2>4 DEF RowsSpared
<1>21. \A u \in trash' : SnapshotSound(u)
  BY DEF TreeInv
<1> QED
  BY <1>4, <1>6, <1>16, <1>17, <1>19, <1>20, <1>21, EndedStep

LEMMA RestoreTrashedInv ==
    ASSUME TreeInv, NEW r \in Requests, NEW t \in trash, RestoreTrashed(r, t)
    PROVE  TreeInv'
<1> DEFINE p == IF Exists(t.parent) THEN t.parent ELSE Root
<1>1. /\ treq[r].pc = "idle" /\ CanLock(r, {t.parent})
      /\ IF t.kind = "folder" THEN RestoreFolder(t, p) ELSE RestoreFile(t, p)
      /\ trash' = trash \ {t} /\ Ends(r) /\ uploaded' = uploaded
  BY DEF RestoreTrashed
<1>2. t.parent \in Parents
  BY DEF TreeInv, SnapshotSound
<1>3. ThereIn(folders, p) /\ p \in Parents
  BY <1>2 DEF ThereIn, Exists, LiveFolders, LiveIn, Parents
<1>4. ~HeldFrom(r, p)
  BY <1>1, FolderIdAssumption DEF HeldFrom, CanLock, LiveIn
<1> HIDE DEF p
<1> QED
  BY <1>1, <1>3, <1>4, RestoreFolderInv, RestoreFileInv

LEMMA TreeInitInv == TreeInit => TreeInv
<1> SUFFICES ASSUME TreeInit PROVE TreeInv
  OBVIOUS
<1> DEFINE SD == DOMAIN StartFolders
           SF == DOMAIN StartFiles
           below(d) == {c \in SD : StartFolders[c].parent = d}
           inside(d) == {f \in SF : StartFiles[f].folder = d}
           any == CHOOSE n \in Names : TRUE
<1>1. /\ SD \in SUBSET FolderIds /\ SF \in SUBSET FileIds /\ any \in Names /\ Root \notin FolderIds
      /\ \A d \in SD : StartFolders[d].parent \in SD \cup {Root} /\ StartFolders[d].name \in Names
      /\ \A f \in SF : StartFiles[f].folder \in SD \cup {Root} /\ StartFiles[f].name \in Names
  BY StartAssumption, FolderIdAssumption
<1>2. ASSUME NEW d PROVE Cardinality(below(d)) + Cardinality(inside(d)) \in Nat
  <2>1. below(d) \in SUBSET FolderIds /\ inside(d) \in SUBSET FileIds
    BY <1>1
  <2>2. IsFiniteSet(below(d)) /\ IsFiniteSet(inside(d))
    BY <2>1, FolderIdAssumption, FileIdAssumption, FS_Subset
  <2>3. Cardinality(below(d)) \in Nat /\ Cardinality(inside(d)) \in Nat
    BY <2>2, FS_CardinalityType
  <2> QED
    BY <2>3
<1>3. folders = [d \in FolderIds |->
                   IF d \in SD
                   THEN [st |-> "live", parent |-> StartFolders[d].parent, name |-> StartFolders[d].name,
                         count |-> Cardinality(below(d)) + Cardinality(inside(d))]
                   ELSE [st |-> "free", parent |-> Root, name |-> any, count |-> 0]]
  BY DEF TreeInit
<1>4. files = [f \in FileIds |->
                   IF f \in SF
                   THEN [st |-> "live", folder |-> StartFiles[f].folder, name |-> StartFiles[f].name]
                   ELSE [st |-> "free", folder |-> Root, name |-> any]]
  BY DEF TreeInit
<1> HIDE DEF any
<1>5. /\ files \in [FileIds -> FileRow]
      /\ \A f \in FileIds : files[f].st = (IF f \in SF THEN "live" ELSE "free")
      /\ \A f \in SF : files[f].folder = StartFiles[f].folder
  BY <1>1, <1>4 DEF FileRow, Parents
<1>6. /\ folders \in [FolderIds -> FolderRow]
      /\ \A d \in FolderIds : folders[d].st = (IF d \in SD THEN "live" ELSE "free")
      /\ \A d \in SD : /\ folders[d].parent = StartFolders[d].parent
                       /\ folders[d].count = Cardinality(below(d)) + Cardinality(inside(d))
  <2> DEFINE n(d) == Cardinality(below(d)) + Cardinality(inside(d))
  <2>1. \A d : n(d) \in Nat
    BY <1>2
  <2>2. folders = [d \in FolderIds |->
                     IF d \in SD
                     THEN [st |-> "live", parent |-> StartFolders[d].parent, name |-> StartFolders[d].name,
                           count |-> n(d)]
                     ELSE [st |-> "free", parent |-> Root, name |-> any, count |-> 0]]
    BY <1>3
  <2> HIDE DEF n
  <2>3. /\ folders \in [FolderIds -> FolderRow]
        /\ \A d \in FolderIds : folders[d].st = (IF d \in SD THEN "live" ELSE "free")
        /\ \A d \in SD : folders[d].parent = StartFolders[d].parent /\ folders[d].count = n(d)
    BY <1>1, <2>1, <2>2 DEF FolderRow, Parents
  <2> QED
    BY <2>3 DEF n
<1>7. LiveIn(folders) = SD
  BY <1>1, <1>6 DEF LiveIn
<1>8. ASSUME NEW d PROVE FoldersIn(folders, d) = below(d) /\ FilesIn(files, d) = inside(d)
  <2>1. FoldersIn(folders, d) = below(d)
    BY <1>6, <1>7 DEF FoldersIn
  <2>2. \A f : f \in FilesIn(files, d) <=> f \in inside(d)
    BY <1>1, <1>5 DEF FilesIn
  <2> QED
    BY <2>1, <2>2
<1>9. CountsIn(folders, files)
  BY <1>6, <1>7, <1>8 DEF CountsIn
<1>10. WholeIn(folders, files, uploaded)
  BY <1>1, <1>5, <1>6, <1>7 DEF WholeIn, ThereIn
<1>11. FolderKnown
  BY <1>1, <1>5, <1>6 DEF FolderKnown
<1>12. IdleRequest \in TreeRequest
  BY DEF IdleRequest, TreeRequest, TreeSteps, Parents
<1>13. \A r \in Requests : treq[r] = IdleRequest
  BY DEF TreeInit
<1>14. TreeTyped
  BY <1>5, <1>6, <1>12 DEF TreeInit, TreeTyped
<1>15. \A r \in Requests : treq[r].pc = "idle" /\ treq[r].folders = {}
  BY <1>13 DEF IdleRequest
<1>16. CountingApart /\ \A r \in Requests : RequestReady(r)
  BY <1>15 DEF CountingApart, RequestReady, AskedKnown, CountingOwn, MovePlanned, DeletionReady
<1>17. \A t \in trash : SnapshotSound(t)
  BY DEF TreeInit
<1> QED
  BY <1>9, <1>10, <1>11, <1>14, <1>16, <1>17 DEF TreeInv

LEMMA TreeNextInv == TreeInv /\ [TreeNext]_treeVars => TreeInv'
<1> SUFFICES ASSUME TreeInv, [TreeNext]_treeVars PROVE TreeInv'
  OBVIOUS
<1>1. CASE UNCHANGED treeVars
  <2>1. /\ TreeTyped' /\ FolderKnown' /\ CountingApart' /\ \A t \in trash' : SnapshotSound(t)
        /\ CountsIn(folders', files') /\ WholeIn(folders', files', uploaded')
    BY <1>1 DEF treeVars, TreeInv, TreeTyped, FolderKnown, CountingApart
  <2>2. \A r \in Requests : RequestReady(r)'
    BY <1>1 DEF treeVars, TreeInv, RequestReady, AskedKnown, CountingOwn, MovePlanned, DeletionReady
  <2> QED
    BY <2>1, <2>2 DEF TreeInv
<1>2. CASE TreeNext
  <2>1. PICK r \in Requests :
        \/ \E p \in Parents, n \in Names : CreateFolder(r, p, n) \/ UploadInsert(r, p, n)
        \/ \E d \in LiveFolders, n \in Names : RenameFolder(r, d, n)
        \/ \E f \in LiveFiles, n \in Names : RenameFile(r, f, n)
        \/ UploadCount(r)
        \/ \E b \in Batches(LiveFiles, LiveFolders), p \in Parents : MoveStart(r, b.files, b.folders, p)
        \/ MoveLock(r) \/ MovePlan(r) \/ MoveCommit(r)
        \/ \E b \in Batches(LiveFiles, LiveFolders) : TrashStart(r, b.files, b.folders)
        \/ TrashDiscover(r) \/ TrashStabilize(r) \/ TrashDelete(r)
        \/ \E t \in trash : RestoreTrashed(r, t)
        \/ RequestFails(r)
    BY <1>2 DEF TreeNext
  <2>2. \A b \in Batches(LiveFiles, LiveFolders) : b.files \in SUBSET LiveFiles /\ b.folders \in SUBSET LiveFolders
    BY DEF Batches
  <2>3. CASE \E p \in Parents, n \in Names : CreateFolder(r, p, n) \/ UploadInsert(r, p, n)
    BY <2>3, CreateFolderInv, UploadInsertInv
  <2>4. CASE \E d \in LiveFolders, n \in Names : RenameFolder(r, d, n)
    BY <2>4, RenameFolderInv
  <2>5. CASE \E f \in LiveFiles, n \in Names : RenameFile(r, f, n)
    BY <2>5, RenameFileInv
  <2>6. CASE UploadCount(r) \/ RequestFails(r)
    BY <2>6, UploadCountInv, RequestFailsInv
  <2>7. CASE \E b \in Batches(LiveFiles, LiveFolders), p \in Parents : MoveStart(r, b.files, b.folders, p)
    BY <2>2, <2>7, MoveStartInv
  <2>8. CASE MoveLock(r) \/ MovePlan(r) \/ MoveCommit(r)
    BY <2>8, MoveLockInv, MovePlanInv, MoveCommitInv
  <2>9. CASE \E b \in Batches(LiveFiles, LiveFolders) : TrashStart(r, b.files, b.folders)
    BY <2>2, <2>9, TrashStartInv
  <2>10. CASE TrashDiscover(r) \/ TrashStabilize(r) \/ TrashDelete(r)
    BY <2>10, TrashDiscoverInv, TrashStabilizeInv, TrashDeleteInv
  <2>11. CASE \E t \in trash : RestoreTrashed(r, t)
    BY <2>11, RestoreTrashedInv
  <2> QED
    BY <2>1, <2>3, <2>4, <2>5, <2>6, <2>7, <2>8, <2>9, <2>10, <2>11
<1> QED
  BY <1>1, <1>2

LEMMA TreeInvSuffices == TreeInv => TreeConsistent
<1> SUFFICES ASSUME TreeInv PROVE TreeConsistent
  OBVIOUS
<1>1. TreeTypeOK
  BY DEF TreeInv, TreeTyped, TreeTypeOK, TreeRequest, TreeSteps
<1>2. LiveFolders = LiveIn(folders)
  BY DEF LiveFolders, LiveIn
<1>3. \A d : ChildFolders(d) = FoldersIn(folders, d) /\ ChildFiles(d) = FilesIn(files, d)
  BY <1>2 DEF ChildFolders, ChildFiles, FoldersIn, FilesIn, LiveFiles
<1>4. ItemCountExact
  BY <1>2, <1>3 DEF TreeInv, CountsIn, ItemCountExact
<1>5. SubtreeDeletedWhole
  BY <1>2 DEF TreeInv, WholeIn, ThereIn, SubtreeDeletedWhole, Exists, LiveFiles
<1> QED
  BY <1>1, <1>4, <1>5 DEF TreeConsistent

\* A folder's item_count is the number of its live folders and files and a
\* deletion leaves nothing in a folder that is gone (but for what an upload put
\* there), whatever FolderService, FileMutationService::Move, TrashService and
\* the insert of an upload do at the same time, for any number of folders,
\* files, names and requests and batches of any size.
THEOREM TreeConsistentHolds == TreeSpec => []TreeConsistent
<1>1. TreeInit => TreeInv
  BY TreeInitInv
<1>2. TreeInv /\ [TreeNext]_treeVars => TreeInv'
  BY TreeNextInv
<1>3. TreeInv => TreeConsistent
  BY TreeInvSuffices
<1> QED
  BY <1>1, <1>2, <1>3, PTL DEF TreeSpec

=============================================================================
