--------------------------- MODULE RequestValidation ---------------------------
(***************************************************************************)
(* What the request DTOs let through.  A form is the sequence of tests its *)
(* FromRequest makes; a value is the class of inputs that the tests tell   *)
(* apart.  A field's value is looked at when the first test reads it, the  *)
(* first test that fails ends the request, and a request that passes them  *)
(* all is a DTO the services take at its word.  The second part is what    *)
(* the service then computes from an accepted file size: the chunks.       *)
(***************************************************************************)
EXTENDS Integers, Sequences, FiniteSets, SetSums

CONSTANTS ByteWidth,      \* bound: file sizes are unsigned numbers of this many bits
          MaxChunkCount,  \* the number of chunks a task row can count
          ChunkSizes      \* chunk sizes the configuration may give

ASSUME ValidationAssumption ==
    /\ ByteWidth \in Nat \ {0} /\ MaxChunkCount \in Nat \ {0}
    /\ ChunkSizes \subseteq Nat

VARIABLES rvForm,     \* the form the request is parsed as
          rvAt,       \* the next test, or how the parsing ended
          rvDto,      \* the fields read so far: a set of <<field, value>>
          rvFile      \* the geometry of an accepted upload

rvVars == <<rvForm, rvAt, rvDto, rvFile>>

-----------------------------------------------------------------------------
(* Values, as the tests tell them apart.  "large" is past the field's own  *)
(* limit, "huge" past any integer type, "other" well formed but not what a *)
(* confirmation must repeat.                                               *)
Texts == {"empty", "spaces", "fits", "other", "long", "malformed"}
Numbers == {"negative", "zero", "positive", "large"}
Lists == {"none", "ids", "ids_zero", "ids_negative", "ids_text", "ids_many"}
Booleans == {"true", "false"}
Json == {"absent", "null", "huge"} \cup Booleans \cup Texts \cup Numbers \cup Lists
Query == {"huge"} \cup Texts \cup Numbers   \* a query or path string: "empty" when not given
Naturals_ == Numbers \ {"negative"}

\* A test of one field: the values it passes, those it answers with an
\* exception, and the error for the rest.  Two fields may also conflict.
Reads(field, wire, passes, throws, code) ==
    [field |-> field, wire |-> wire, passes |-> passes, throws |-> throws,
     code |-> code, other |-> "none", unless |-> {}]
Conflict(field, values, other, others, code) ==
    [field |-> field, wire |-> {}, passes |-> values, throws |-> {},
     code |-> code, other |-> other, unless |-> others]
Keeps(field, passes, code) == Reads(field, {}, passes, {}, code)

VF == "ValidationFailed"
IP == "InvalidParameter"

-----------------------------------------------------------------------------
(* The helpers of DtoBase.                                                 *)

\* isMember of a body that parsed to something else than an object throws.
RequireJsonBody ==
    <<Reads("body", {"not_json", "not_object", "object"}, {"object"}, {"not_object"}, VF)>>
RequireJsonObject ==
    <<Reads("body", {"not_json", "not_object", "unknown_field", "object"}, {"object"}, {}, VF)>>

RequireString(f) == Reads(f, Json, Texts, {}, VF)
OptionalString(f) == Reads(f, Json, Texts \cup {"absent"}, {}, VF)
RequireUInt64(f) == Reads(f, Json, Naturals_, {}, VF)
OptionalUInt64(f) == Reads(f, Json, Naturals_ \cup {"absent"}, {}, VF)
OptionalBool(f) == Reads(f, Json, Booleans \cup {"absent"}, {}, VF)

\* isIntegral passes numbers that asInt and asUInt64 refuse by throwing.
RequireInt(f) == Reads(f, Json, Numbers \ {"large"}, {"large"}, VF)
OptionalInt(f) == Reads(f, Json, {"absent"} \cup (Numbers \ {"large"}), {"large"}, VF)
OptionalUnsigned(f) == Reads(f, Json, Naturals_ \cup {"absent"}, {"negative"}, VF)
OptionalPositiveIdArray(f) ==
    Reads(f, Json, {"absent", "none", "ids", "ids_many"}, {"ids_negative"}, IP)
RequirePositiveIdArray(f) == Reads(f, Json, {"ids"}, {"ids_negative"}, VF)

\* std::stoull takes a minus sign and wraps the number.
ParsePositiveUInt64(f) == Reads(f, Query, {"negative", "positive", "large"}, {}, IP)
QueryUInt64(f) == Reads(f, Query, Numbers \cup {"empty"}, {}, VF)
QueryPositiveInt(f) == Reads(f, Query, {"empty", "positive"}, {}, VF)

-----------------------------------------------------------------------------
(* Tests that several forms share.                                         *)
Paging == <<QueryPositiveInt("page"), QueryPositiveInt("page_size")>>
PathText(f) == <<Reads(f, Query, Query \ {"empty"}, {}, IP)>>
PathDigits(f) == <<Reads(f, Query, Query \ {"empty", "negative"}, {}, IP)>>
SafeIdentifier(f) == <<Reads(f, Query, {"fits"} \cup Numbers, {}, VF)>>
QueryWord(f) == Reads(f, Query, {"empty", "fits"}, {}, VF)
QueryText(f) == Reads(f, Query, Query, {}, VF)
LogText(f) == Reads(f, Query, Query \ {"malformed", "long"}, {}, VF)
SmallInt(f) == Reads(f, Query, {"empty", "zero", "positive"}, {}, VF)

ValidateName(f) ==
    <<Keeps(f, Texts \ {"empty", "long"}, VF), Keeps(f, Texts \ {"malformed"}, "InvalidFilename")>>
TrimmedName(f) == <<Keeps(f, Texts \ {"spaces"}, VF)>> \o ValidateName(f)

Nothing == {"absent", "none"}
SomeIds ==
    <<OptionalPositiveIdArray("file_ids"), OptionalPositiveIdArray("folder_ids"),
      Conflict("file_ids", Nothing, "folder_ids", Nothing, IP)>>

-----------------------------------------------------------------------------
(* The forms.                                                              *)

InitUploadRequest ==
    RequireJsonBody
    \o <<RequireString("filename"), RequireUInt64("file_size"), RequireString("file_hash"),
         OptionalUInt64("parent_id")>>
    \o ValidateName("filename")
    \o <<Keeps("file_size", {"positive", "large"}, VF), Keeps("file_hash", {"fits"}, VF)>>
CompleteUploadRequest ==
    RequireJsonBody
    \o <<RequireString("upload_id"), Keeps("upload_id", Texts \ {"empty"}, VF)>>
FileListRequest ==
    <<QueryUInt64("parent_id")>> \o Paging
    \o <<QueryWord("sort_by"), QueryWord("sort_order"), QueryWord("type")>>
DownloadInfoRequest == PathDigits("file_id") \o <<ParsePositiveUInt64("file_id")>>
DownloadRequest == <<ParsePositiveUInt64("file_id")>>
RenameRequest ==
    <<ParsePositiveUInt64("file_id")>> \o RequireJsonBody
    \o <<RequireString("new_name")>> \o ValidateName("new_name")
MoveRequest == RequireJsonBody \o SomeIds \o <<OptionalUInt64("target_folder_id")>>
CopyRequest == RequireJsonBody \o SomeIds \o <<OptionalUInt64("target_folder_id")>>
DeleteRequest == RequireJsonBody \o SomeIds
SearchRequest ==
    <<Reads("keyword", Query, Query \ {"empty", "long", "malformed"}, {}, VF),
      QueryWord("type"), QueryUInt64("folder_id")>> \o Paging

CreateFolderRequest ==
    RequireJsonBody
    \o <<RequireString("name"), OptionalUInt64("parent_id")>> \o TrimmedName("name")
RenameFolderRequest ==
    PathDigits("folder_id") \o <<ParsePositiveUInt64("folder_id")>> \o RequireJsonBody
    \o <<RequireString("new_name")>> \o TrimmedName("new_name")
FolderTreeRequest ==
    <<QueryUInt64("parent_id"), Reads("depth", Query, {"empty", "zero", "positive"}, {}, VF)>>

ShareSettings ==
    <<OptionalInt("expire_days"),
      Keeps("expire_days", {"absent"} \cup Naturals_, VF),
      OptionalString("share_password"),
      Keeps("share_password", {"absent", "empty", "fits", "other"}, VF),
      OptionalString("permission"), Keeps("permission", {"absent", "fits"}, VF)>>
CreateShareRequest == RequireJsonBody \o SomeIds \o ShareSettings
ShareListRequest == <<QueryWord("status")>> \o Paging
ShareDetailRequest == PathText("share_id")
UpdateShareRequest == PathText("share_id") \o RequireJsonBody \o ShareSettings
CancelShareRequest ==
    RequireJsonBody
    \o <<Reads("share_ids", Json, {"ids_text"} \cup (Json \ (Lists \cup {"absent"})), {}, VF),
         Keeps("share_ids", {"ids_text"}, IP)>>
AccessShareRequest == PathText("share_id") \o <<OptionalString("access_password")>>
BrowseShareRequest == PathText("share_id") \o <<QueryUInt64("folder_id")>>
DownloadShareRequest ==
    PathText("share_id") \o PathDigits("file_id") \o <<ParsePositiveUInt64("file_id")>>
SaveShareItemsRequest ==
    PathText("share_id") \o RequireJsonBody \o SomeIds \o <<OptionalUnsigned("target_folder_id")>>

TrashListRequest == Paging
TrashBatchRequest == RequireJsonBody \o <<RequirePositiveIdArray("trash_ids")>>

RegisterRequest ==
    RequireJsonBody
    \o <<RequireString("username"), RequireString("email"), RequireString("new_password"),
         Keeps("username", {"fits"}, VF), Keeps("email", {"fits"}, VF),
         Keeps("new_password", {"fits"}, VF)>>
LoginRequest ==
    RequireJsonBody
    \o <<RequireString("account"), RequireString("password"),
         Keeps("account", Texts \ {"empty"}, VF), Keeps("password", Texts \ {"empty"}, VF)>>
RefreshTokenRequest == RequireJsonBody \o <<RequireString("refresh_token")>>
ChangePasswordRequest ==
    RequireJsonBody
    \o <<RequireString("old_password"), RequireString("new_password"),
         Keeps("new_password", {"fits"}, VF),
         Conflict("old_password", {"fits"}, "new_password", {"fits"}, VF)>>
Blank == {"absent", "empty", "spaces"}
UpdateProfileRequest ==
    RequireJsonBody
    \o <<OptionalString("nickname"), OptionalString("avatar"),
         Keeps("nickname", Blank \cup (Texts \ {"long"}), VF),
         Keeps("avatar", Blank \cup (Texts \ {"long"}), VF),
         Conflict("nickname", Blank, "avatar", Blank, VF)>>

ListUsersRequest ==
    Paging \o <<QueryText("username"), QueryText("email"), SmallInt("status"), SmallInt("role")>>
ChangeStatusRequest ==
    RequireJsonBody
    \o <<RequireInt("status"), Keeps("status", {"zero", "positive"}, "AdminInvalidStatus")>>
ChangeRoleRequest ==
    RequireJsonBody
    \o <<RequireInt("role"), Keeps("role", {"zero", "positive"}, "AdminInvalidRole")>>
ChangeAvailableSpaceRequest ==
    RequireJsonBody
    \o <<RequireUInt64("space"), Keeps("space", {"zero", "positive"}, VF)>>
ListSharesRequest ==
    Paging \o <<SmallInt("status"), QueryUInt64("user_id"), QueryText("username")>>
AdminLogListRequest ==
    Paging
    \o <<LogText("action"), LogText("target_type"), LogText("target_name"),
         QueryWord("start_date"), QueryWord("end_date"),
         Reads("date_order", {"forward", "backward"}, {"forward"}, {}, VF)>>

-----------------------------------------------------------------------------
(* Commands of the operators: nothing is done unless it is asked for twice. *)
Required(f) == Conflict("dry_run", {"false"}, f, {"absent"}, VF)
Reason ==
    <<OptionalString("reason"), Keeps("reason", {"absent"} \cup (Texts \ {"long"}), VF)>>
ReasonGiven == <<Conflict("dry_run", {"false"}, "reason", Blank, VF)>>

ConfirmedFields(versioned) ==
    <<OptionalBool("dry_run"), OptionalString("confirmation"),
      Keeps("confirmation", {"absent", "fits"}, VF)>>
    \o (IF versioned THEN <<OptionalUInt64("state_version"),
                            Keeps("state_version", {"absent", "positive", "large"}, VF)>>
        ELSE << >>)
    \o Reason \o <<Required("confirmation")>>
    \o (IF versioned THEN <<Required("state_version")>> ELSE << >>) \o ReasonGiven

UploadLeaseReleaseRequest ==
    SafeIdentifier("upload_id") \o RequireJsonObject \o ConfirmedFields(TRUE)
    \o <<OptionalString("lease_owner"),
         Keeps("lease_owner", {"absent"} \cup (Texts \ {"empty", "long"}), VF),
         Required("lease_owner")>>
UploadCleanupRebuildRequest ==
    SafeIdentifier("upload_id") \o RequireJsonObject \o ConfirmedFields(TRUE)
StorageReconciliationEnqueueRequest ==
    SafeIdentifier("scan_id") \o RequireJsonObject
    \o <<RequireString("scope"), Keeps("scope", {"fits"}, VF)>> \o ConfirmedFields(FALSE)
StorageJobReplayRequest ==
    <<ParsePositiveUInt64("job_id")>> \o RequireJsonObject
    \o <<OptionalBool("dry_run"), OptionalUInt64("confirmation"),
         Keeps("confirmation", {"absent", "positive"}, VF)>>
    \o Reason \o <<Required("confirmation")>> \o ReasonGiven
StorageJobListRequest == <<QueryWord("status"), QueryWord("job_type")>> \o Paging
UploadDiagnosticRequest ==
    SafeIdentifier("upload_id")
    \o <<QueryPositiveInt("chunk_page"), QueryPositiveInt("chunk_page_size"),
         QueryPositiveInt("job_page"), QueryPositiveInt("job_page_size")>>

FileForms ==
    [InitUpload |-> InitUploadRequest, CompleteUpload |-> CompleteUploadRequest,
     FileList |-> FileListRequest, DownloadInfo |-> DownloadInfoRequest,
     Download |-> DownloadRequest, Rename |-> RenameRequest, Move |-> MoveRequest,
     Copy |-> CopyRequest, Delete |-> DeleteRequest, Search |-> SearchRequest,
     CreateFolder |-> CreateFolderRequest, RenameFolder |-> RenameFolderRequest,
     FolderTree |-> FolderTreeRequest, TrashList |-> TrashListRequest,
     TrashBatch |-> TrashBatchRequest]
ShareForms ==
    [CreateShare |-> CreateShareRequest, ShareList |-> ShareListRequest,
     ShareDetail |-> ShareDetailRequest, UpdateShare |-> UpdateShareRequest,
     CancelShare |-> CancelShareRequest, AccessShare |-> AccessShareRequest,
     BrowseShare |-> BrowseShareRequest, DownloadShare |-> DownloadShareRequest,
     SaveShareItems |-> SaveShareItemsRequest]
AccountForms ==
    [Register |-> RegisterRequest, Login |-> LoginRequest,
     RefreshToken |-> RefreshTokenRequest, ChangePassword |-> ChangePasswordRequest,
     UpdateProfile |-> UpdateProfileRequest, ListUsers |-> ListUsersRequest,
     ChangeStatus |-> ChangeStatusRequest, ChangeRole |-> ChangeRoleRequest,
     ChangeAvailableSpace |-> ChangeAvailableSpaceRequest,
     ListShares |-> ListSharesRequest, AdminLogList |-> AdminLogListRequest]
OperatorForms ==
    [UploadLeaseRelease |-> UploadLeaseReleaseRequest,
     UploadCleanupRebuild |-> UploadCleanupRebuildRequest,
     StorageReconciliationEnqueue |-> StorageReconciliationEnqueueRequest,
     StorageJobReplay |-> StorageJobReplayRequest,
     StorageJobList |-> StorageJobListRequest,
     UploadDiagnostic |-> UploadDiagnosticRequest]

\* The table of all forms (@@ of TLC, which the provers do not know).
WithForms(f, g) == [n \in DOMAIN f \cup DOMAIN g |-> IF n \in DOMAIN f THEN f[n] ELSE g[n]]
Forms == WithForms(FileForms, WithForms(ShareForms, WithForms(AccountForms, OperatorForms)))

-----------------------------------------------------------------------------
(* The chunks of an accepted upload, in unsigned arithmetic.               *)
ByteLimit == 2 ^ ByteWidth
NoFile == [size |-> 0, chunk |-> 0, total |-> 0]

TotalChunks_Floor(size, chunk) == size \div chunk
TotalChunks(size, chunk) == (((size - 1) % ByteLimit) \div chunk) + 1

\* DecideChunkAcceptance: what chunk i must measure.
ExpectedSize(f, i) ==
    LET remaining == (f.size - i * f.chunk) % ByteLimit
    IN IF f.chunk < remaining THEN f.chunk ELSE remaining

-----------------------------------------------------------------------------
RvInit == rvForm \in DOMAIN Forms /\ rvAt = 1 /\ rvDto = {} /\ rvFile = NoFile

Tests == Forms[rvForm]
Value(field) == (CHOOSE p \in rvDto : p[1] = field)[2]
IsRead(field) == \E p \in rvDto : p[1] = field

Refuses(t) ==
    IF t.other = "none" THEN Value(t.field) \notin t.passes
    ELSE Value(t.field) \in t.passes /\ Value(t.other) \in t.unless

\* A field is read when its first test comes.
ReadField ==
    /\ rvAt \in 1..Len(Tests)
    /\ LET t == Tests[rvAt]
       IN /\ ~IsRead(t.field)
          /\ \E v \in t.wire : rvDto' = rvDto \cup {<<t.field, v>>}
    /\ UNCHANGED <<rvForm, rvAt, rvFile>>

ApplyTest ==
    /\ rvAt \in 1..Len(Tests)
    /\ LET t == Tests[rvAt]
       IN /\ IsRead(t.field)
          /\ IF ~Refuses(t) THEN rvAt' = rvAt + 1 /\ UNCHANGED rvDto
             ELSE /\ rvAt' = IF Value(t.field) \in t.throws THEN Len(Tests) + 3
                             ELSE Len(Tests) + 2
                  /\ rvDto' = {}
    /\ UNCHANGED <<rvForm, rvFile>>

Accepted == rvAt = Len(Tests) + 1

\* InitUpload: the size is a positive number, the chunk size the configured
\* one; too many chunks are refused.
PlanChunks(size, chunk) ==
    /\ Accepted /\ rvForm = "InitUpload" /\ rvFile = NoFile
    /\ (size = 0) = (Value("file_size") = "zero")
    /\ chunk # 0
    /\ TotalChunks(size, chunk) <= MaxChunkCount
    /\ rvFile' = [size |-> size, chunk |-> chunk, total |-> TotalChunks(size, chunk)]
    /\ UNCHANGED <<rvForm, rvAt, rvDto>>

RvNext ==
    \/ ReadField
    \/ ApplyTest
    \/ \E size \in 0..(ByteLimit - 1), chunk \in ChunkSizes : PlanChunks(size, chunk)

RvSpec == RvInit /\ [][RvNext]_rvVars

-----------------------------------------------------------------------------
(* Properties.                                                             *)

\* What the services take for granted of each field, whatever form it came
\* with.  A wrapped negative id is a positive number no row has.
Relied(field) ==
    CASE field \in {"page", "page_size", "chunk_page", "chunk_page_size", "job_page",
                    "job_page_size"} -> {"empty", "positive"}
      [] field \in {"file_ids", "folder_ids"} -> {"absent", "none", "ids", "ids_many"}
      [] field = "trash_ids" -> {"ids"}
      [] field \in {"file_id", "job_id"} -> {"positive", "large", "negative"}
      [] field \in {"filename", "new_name", "name"} -> {"fits", "other", "spaces"}
      [] field = "file_size" -> {"positive", "large"}
      [] field \in {"file_hash", "username", "email", "scope"} -> Texts \cup Query
      [] field \in {"target_folder_id", "parent_id"} -> {"absent", "empty"} \cup Numbers
      [] field \in {"expire_days", "space"} -> {"absent"} \cup Naturals_
      [] field = "permission" -> {"absent", "fits"}
      [] OTHER -> Json \cup Query \cup {"object", "forward"}

\* Whatever form a field came with, an accepted request holds only values
\* the services rely on: pages start at one and are bounded, no id is zero,
\* a batch names something, a stored name is never empty, hidden or
\* malformed and an upload has bytes (FromRequest of every DTO).
AcceptedIsUsable ==
    Accepted =>
        /\ \A p \in rvDto : p[2] \in Relied(p[1])
        /\ IsRead("file_ids") =>
               {Value("file_ids"), Value("folder_ids")} \cap {"ids", "ids_many"} # {}

\* A command that changes durable state repeats the id it is addressed to,
\* carries a reason, and names the version and the owner it expects to
\* replace; leaving anything out makes it a dry run or an error
\* (ConfirmedFields, StorageJobReplayRequest).
CommandConfirmed ==
    Accepted /\ IsRead("dry_run") =>
        \/ Value("dry_run") \in {"absent", "true"}
        \/ /\ Value("confirmation") \in {"fits", "positive"}
           /\ Value("reason") \notin Blank \cup {"long"}
           /\ IsRead("state_version") => Value("state_version") \in {"positive", "large"}
           /\ rvForm = "UploadLeaseRelease"
                => Value("lease_owner") \notin {"absent", "empty"}

\* The chunks of an accepted upload, each of the size the server will insist
\* on, are never empty and together are the file (init_upload's chunk count,
\* DecideChunkAcceptance).
ChunksCoverFile ==
    rvFile # NoFile =>
        /\ rvFile.total > 0
        /\ \A i \in 0..(rvFile.total - 1) : ExpectedSize(rvFile, i) > 0
        /\ Total([i \in 0..(rvFile.total - 1) |-> ExpectedSize(rvFile, i)], 0..(rvFile.total - 1)) = rvFile.size

\* What the services may take for granted about an accepted request
\* (FromRequest of every DTO, and the chunk arithmetic behind it).
FormsSound == AcceptedIsUsable /\ CommandConfirmed /\ ChunksCoverFile

===============================================================================
