----------------------------- MODULE FileReads -----------------------------
(***************************************************************************)
(* The read side of the file service: the list cache of                    *)
(* FileQueryService::GetFileList with the generations of FileListCache,    *)
(* the pages of FileListQuery and SearchQuery, and the downloads that      *)
(* BuildDownloadResponse streams after DownloadIntegrityService's          *)
(* preflight.  One query of one user stands for the cache keys (user,      *)
(* folder, type, order, page and size are all part of the key); the        *)
(* folder's contents are the number of mutations that have committed.      *)
(***************************************************************************)
EXTENDS Integers, Sequences, FiniteSets, SequencesExt

CONSTANTS
    Listers,       \* list requests in flight
    Mutators,      \* requests that change the listing, each run once
    Rows,          \* rows of a listing that is read page by page: [name, type, id]
    PageSize,      \* rows of a page
    FileSize,      \* bytes of the file that is downloaded
    ByteOffsets    \* numbers a Range header may hold

ASSUME ReadsAssumption ==
    /\ PageSize \in Nat \ {0} /\ FileSize \in Nat \ {0} /\ ByteOffsets \subseteq Nat
    /\ Rows \subseteq [name : Nat, type : Nat, id : Nat]
    /\ IsFiniteSet(Rows) /\ IsFiniteSet(Mutators)

VARIABLES
    committed,   \* mutations that have committed
    generation,  \* Redis: file_list_version
    cached,      \* Redis: the pages stored under each generation
    invalidated, \* history: mutations whose INCR has been answered
    lister,      \* what a list request has read
    mutator,     \* 0: not run, n: committed as the n-th, -1: over
    walk,        \* a client that reads page after page
    download     \* a download: its range, the stream, what was recorded

listVars == <<committed, generation, cached, invalidated, lister, mutator>>
readVars == <<listVars, walk, download>>

Versions == 0..Cardinality(Mutators)
IdleLister == [pc |-> "idle", version |-> 0, cacheable |-> FALSE, total |-> 0, page |-> 0,
               due |-> 0, hit |-> FALSE]
IdleDownload == [pc |-> "idle", start |-> 0, length |-> 0, delivered |-> 0, blob |-> FileSize,
                 findings |-> 0]

ReadsInit ==
    /\ committed = 0 /\ generation = 0 /\ invalidated = 0
    /\ cached = [v \in Versions |-> {}]
    /\ lister = [l \in Listers |-> IdleLister]
    /\ mutator = [m \in Mutators |-> 0]
    /\ walk = [next |-> 1, seen |-> <<>>]
    /\ download = IdleDownload

-----------------------------------------------------------------------------
(* FileListCache and GetFileList                                           *)

\* The version key is read, missing is 0; without it the cache is not used.
GetVersion(l) ==
    /\ lister[l].pc = "idle"
    /\ \/ lister' = [lister EXCEPT ![l] = [@ EXCEPT !.pc = "lookup", !.version = generation,
                                           !.cacheable = TRUE, !.due = invalidated]]
       \/ lister' = [lister EXCEPT ![l] = [@ EXCEPT !.pc = "count", !.due = invalidated]]
    /\ UNCHANGED <<committed, generation, cached, invalidated, mutator, walk, download>>

\* A hit is answered; a miss and an unparsable entry go to the database, and
\* so does an error, after which nothing is stored.
CacheLookup(l) ==
    LET found == cached[lister[l].version]
    IN /\ lister[l].pc = "lookup"
       /\ \/ \E p \in found : lister' = [lister EXCEPT ![l] =
                [@ EXCEPT !.pc = "served", !.total = p.total, !.page = p.page, !.hit = TRUE]]
          \/ found = {} /\ lister' = [lister EXCEPT ![l].pc = "count"]
          \/ lister' = [lister EXCEPT ![l].pc = "count", ![l].cacheable = FALSE]
       /\ UNCHANGED <<committed, generation, cached, invalidated, mutator, walk, download>>

\* FileListQuery::queryAll: the counts and the page are statements of their own.
ListCount(l) ==
    /\ lister[l].pc = "count"
    /\ lister' = [lister EXCEPT ![l].pc = "page", ![l].total = committed]
    /\ UNCHANGED <<committed, generation, cached, invalidated, mutator, walk, download>>

ListPage(l) ==
    /\ lister[l].pc = "page"
    /\ lister' = [lister EXCEPT ![l].page = committed,
                                ![l].pc = IF lister[l].cacheable THEN "store" ELSE "served"]
    /\ UNCHANGED <<committed, generation, cached, invalidated, mutator, walk, download>>

StoreKey_Newest(l) == generation
\* The key was built from the version that was read before the query.
StoreKey(l) == lister[l].version

CacheStore(l) ==
    /\ lister[l].pc = "store"
    /\ \/ cached' = [cached EXCEPT ![StoreKey(l)] =
                        {[total |-> lister[l].total, page |-> lister[l].page]}]
       \/ cached' = cached
    /\ lister' = [lister EXCEPT ![l].pc = "served"]
    /\ UNCHANGED <<committed, generation, invalidated, mutator, walk, download>>

\* The answer is sent; the client may list again.
ListAnswered(l) ==
    /\ lister[l].pc = "served"
    /\ lister' = [lister EXCEPT ![l] = IdleLister]
    /\ UNCHANGED <<committed, generation, cached, invalidated, mutator, walk, download>>

\* The entry's thirty seconds are over.
EntryExpires(v) ==
    /\ cached[v] # {}
    /\ cached' = [cached EXCEPT ![v] = {}]
    /\ UNCHANGED <<committed, generation, invalidated, lister, mutator, walk, download>>

\* Create, rename, move, copy, trash, restore, save and upload: the commit ...
MutationCommits(m) ==
    /\ mutator[m] = 0
    /\ committed' = committed + 1
    /\ mutator' = [mutator EXCEPT ![m] = committed + 1]
    /\ UNCHANGED <<generation, cached, invalidated, lister, walk, download>>

\* ... and then the new generation, unless Redis fails or the process ends.
Invalidate(m) ==
    /\ mutator[m] > 0
    /\ \/ /\ generation' = generation + 1
          /\ invalidated' = IF mutator[m] > invalidated THEN mutator[m] ELSE invalidated
       \/ UNCHANGED <<generation, invalidated>>
    /\ mutator' = [mutator EXCEPT ![m] = -1]
    /\ UNCHANGED <<committed, cached, lister, walk, download>>

-----------------------------------------------------------------------------
(* Pages                                                                   *)

\* BuildDeterministicOrderByClause: name, then the type, then the id.
SortKey(a, b) ==
    \/ a.name < b.name
    \/ a.name = b.name /\ a.type < b.type
    \/ a.name = b.name /\ a.type = b.type /\ a.id < b.id

\* ORDER BY leaves rows with equal keys in any order, anew for each query.
Sorted == {s \in SetToSeqs(Rows) : \A i, j \in DOMAIN s : SortKey(s[i], s[j]) => i < j}

Offset(n) == (n - 1) * PageSize
TotalPages(total) == (total + PageSize - 1) \div PageSize

\* LIMIT page_size OFFSET offset.
PageOf(s, n) ==
    SubSeq(s, Offset(n) + 1, IF Offset(n) + PageSize < Len(s) THEN Offset(n) + PageSize ELSE Len(s))

NextPage ==
    /\ walk.next <= TotalPages(Cardinality(Rows))
    /\ \E s \in Sorted : walk' = [next |-> walk.next + 1, seen |-> walk.seen \o PageOf(s, walk.next)]
    /\ UNCHANGED <<listVars, download>>

-----------------------------------------------------------------------------
(* Downloads                                                               *)

NoNumber == -1

\* Range headers: none, malformed, or "first-last" with either part missing.
RangeHeaders ==
    {[kind |-> k, first |-> NoNumber, last |-> NoNumber] : k \in {"none", "malformed"}}
    \cup [kind : {"bytes"}, first : ByteOffsets \cup {NoNumber}, last : ByteOffsets \cup {NoNumber}]

Unsatisfiable == [ok |-> FALSE, start |-> 0, end |-> 0]

\* RangeRequest::Parse, the suffix form.
SuffixRange(n) ==
    [ok |-> TRUE, start |-> IF n = 0 \/ n > FileSize THEN 0 ELSE FileSize - n, end |-> FileSize - 1]

FixedRange(a, b) ==
    LET end == IF b = NoNumber \/ b >= FileSize THEN FileSize - 1 ELSE b
    IN IF a >= FileSize \/ a > end THEN Unsatisfiable ELSE [ok |-> TRUE, start |-> a, end |-> end]

RangeRequest(h) ==
    CASE h.kind = "none"      -> [ok |-> TRUE, start |-> 0, end |-> FileSize - 1]
      [] h.kind = "malformed" -> Unsatisfiable
      [] h.kind = "bytes" /\ h.first = NoNumber ->
            IF h.last = NoNumber THEN Unsatisfiable ELSE SuffixRange(h.last)
      [] h.kind = "bytes" /\ h.first # NoNumber -> FixedRange(h.first, h.last)

Refuses(d, findings) == download' = [d EXCEPT !.pc = "refused", !.findings = findings]

\* The range, then the preflight: the object is there and has the size of the row.
DownloadStart(h) ==
    LET r == RangeRequest(h)
    IN /\ download.pc = "idle"
       /\ IF ~r.ok THEN Refuses(download, 0)
          ELSE IF download.blob # FileSize THEN Refuses(download, 1)
          ELSE download' = [download EXCEPT !.pc = "open", !.start = r.start,
                                            !.length = r.end - r.start + 1]
       /\ UNCHANGED <<listVars, walk>>

\* OpenBlobRangeForRead, or RecordOpenFailure.
DownloadOpen ==
    /\ download.pc = "open"
    /\ \/ /\ download.blob >= download.start + download.length
          /\ download' = [download EXCEPT !.pc = "stream"]
       \/ Refuses(download, 1)
    /\ UNCHANGED <<listVars, walk>>

\* The stream callback: what is left of the range bounds each read; a read of
\* nothing (or one that throws) is recorded once and ends the answer.
ReadBytes(n) ==
    IF n = 0
    THEN download' = [download EXCEPT !.pc = "cut", !.findings = @ + 1]
    ELSE download' = [download EXCEPT !.delivered = @ + n,
                          !.pc = IF download.delivered + n = download.length THEN "sent" ELSE "stream"]

Readable ==
    LET have == download.blob - download.start - download.delivered
        left == download.length - download.delivered
    IN IF have < left THEN have ELSE left

StreamRead ==
    /\ download.pc = "stream"
    /\ \E n \in 0..(IF Readable > 0 THEN Readable ELSE 0) : ReadBytes(n)
    /\ UNCHANGED <<listVars, walk>>

\* The object is removed or cut short under the download.
BlobShrinks(n) ==
    /\ n < download.blob
    /\ download' = [download EXCEPT !.blob = n]
    /\ UNCHANGED <<listVars, walk>>

ListNext ==
    \/ \E l \in Listers : \/ GetVersion(l) \/ CacheLookup(l) \/ ListCount(l) \/ ListPage(l)
                          \/ CacheStore(l) \/ ListAnswered(l)
    \/ \E v \in Versions : EntryExpires(v)
    \/ \E m \in Mutators : MutationCommits(m) \/ Invalidate(m)

DownloadNext ==
    \/ \E h \in RangeHeaders : DownloadStart(h)
    \/ DownloadOpen \/ StreamRead
    \/ \E n \in {0, FileSize - 1} : BlobShrinks(n)

ReadsSpec == ReadsInit /\ [][ListNext \/ NextPage \/ DownloadNext]_readVars

-----------------------------------------------------------------------------
(* Properties                                                              *)

\* A list request that starts after a mutation's INCR was answered sees that
\* mutation, in its rows and in its total, from the cache as from the
\* database: a request that read the old generation can only fill old keys.
ServedFresh ==
    \A l \in Listers : lister[l].pc = "served" => /\ lister[l].page >= lister[l].due
                                                  /\ lister[l].total >= lister[l].due

\* A client that reads every page of a listing that does not change sees each
\* row exactly once, though every page is a query of its own that may order
\* equal keys as it likes; a file and a folder may share name and id.
PagesCoverListing ==
    walk.next > (Cardinality(Rows) + PageSize - 1) \div PageSize =>
        /\ Len(walk.seen) = Cardinality(Rows)
        /\ ToSet(walk.seen) = Rows

\* A download answers with bytes of the file only, and one that ends with fewer
\* than its Content-Length has left exactly one finding.
DownloadAccounted ==
    /\ download.pc \in {"stream", "sent", "cut"} => download.start + download.length <= FileSize
    /\ download.pc = "sent" => download.delivered = download.length /\ download.findings = 0
    /\ download.pc = "cut" => download.delivered < download.length /\ download.findings = 1

\* What readers are shown is there: fresh lists, pages without gaps or
\* repetitions, downloads of the length announced or a finding
\* (GetFileList, FileListQuery, BuildDownloadResponse).
ReadsFaithful == ServedFresh /\ PagesCoverListing /\ DownloadAccounted

=============================================================================
