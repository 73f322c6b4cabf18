----------------------------- MODULE Attachments -----------------------------
(***************************************************************************)
(* The attachments of one request: AttachmentsService and StorageService.     *)
(* A file is stored, its row saved, then scanned by a timer of the process;   *)
(* a signed link gives access to it for a while, without a session.  The      *)
(* extensions, the largest file and who may upload are refusals of one call. *)
(***************************************************************************)
EXTENDS Values, Naturals, FiniteSets, FiniteSetsExt

CONSTANTS
    Files,        \* bound of the model: the files that may be uploaded
    Sizes,        \* their sizes, none above the largest file
    Quota,        \* ATTACHMENT_MAX_REQUEST_BYTES
    MaxRestarts,  \* bound of the model: restarts of the API
    MaxWithdrawn  \* bound of the model: withdrawals

ASSUME AttachmentsAssumption ==
    /\ Sizes \subseteq Nat
    /\ {Quota, MaxRestarts, MaxWithdrawn} \subseteq Nat

VARIABLES
    file,        \* the rows of table request_attachments
    upload,      \* what the upload of each file is doing
    timers,      \* the scans the process has scheduled
    scan,        \* the verdict of a scan that has read its file
    withdrawal,  \* the row each withdrawal in flight has loaded
    signed,      \* the files with a signed link that has not expired
    download,    \* the downloads that passed the checks
    served,      \* history: the files whose content was sent
    restarts

attachmentsVars ==
    <<file, upload, timers, scan, withdrawal, signed, download, served, restarts>>

AntivirusStatus == {"PENDING", "CLEAN", "INFECTED", "ERROR"}

(* `eicar` is the content; `crossed` is history: another upload was in flight   *)
(* between the check of the quota and the row.                              *)
File == [size : Sizes, eicar : BOOLEAN, antivirusStatus : AntivirusStatus,
         isWithdrawn : BOOLEAN, crossed : BOOLEAN]

Upload == [pc : {"store", "save", "schedule"}, size : Sizes, eicar : BOOLEAN, crossed : BOOLEAN]

ASSUME AttachmentsNull == NULL \notin File /\ NULL \notin Upload /\ NULL \notin AntivirusStatus

AttachmentsTypeOK ==
    /\ file \in [Files -> File \cup {NULL}]
    /\ \A f \in timers : file[f] # NULL
    /\ \A f \in Files : scan[f] \in AntivirusStatus \cup {NULL}
    /\ \A f \in signed : file[f].antivirusStatus \in {"CLEAN", "PENDING"}
    /\ restarts \in 0 .. MaxRestarts

AttachmentsInit ==
    /\ file = [f \in Files |-> NULL]
    /\ upload = [f \in Files |-> NULL]
    /\ timers = {}
    /\ scan = [f \in Files |-> NULL]
    /\ withdrawal = [f \in Files |-> NULL]
    /\ signed = {}
    /\ download = {}
    /\ served = {}
    /\ restarts = 0

-----------------------------------------------------------------------------
Rows == {f \in Files : file[f] # NULL}

(* currentRequestBytes: what is withdrawn or infected does not count.          *)
Counted_Wrong == {f \in Rows : file[f].antivirusStatus = "CLEAN" /\ ~file[f].isWithdrawn}

Counted == {f \in Rows : file[f].antivirusStatus # "INFECTED" /\ ~file[f].isWithdrawn}

Bytes(files) == MapThenSumSet(LAMBDA f : file[f].size, files)

Uploading == {f \in Files : upload[f] # NULL}

(* Every other upload in flight crosses the one that starts, and is crossed.    *)
CheckQuota(f, size, eicar) ==
    /\ file[f] = NULL
    /\ upload[f] = NULL
    /\ Bytes(Counted) + size <= Quota
    /\ upload' = [g \in Files |->
          IF g = f THEN [pc |-> "store", size |-> size, eicar |-> eicar, crossed |-> Uploading # {}]
          ELSE IF g \in Uploading THEN [upload[g] EXCEPT !.crossed = TRUE] ELSE NULL]
    /\ UNCHANGED <<file, timers, scan, withdrawal, signed, download, served, restarts>>

(* The storage refuses, or the object is there and then the row.              *)
Store(f) ==
    /\ upload[f] # NULL /\ upload[f].pc = "store"
    /\ upload' = [upload EXCEPT ![f].pc = "save"]
    /\ UNCHANGED <<file, timers, scan, withdrawal, signed, download, served, restarts>>

SaveRow(f) ==
    /\ upload[f] # NULL /\ upload[f].pc = "save"
    /\ file' = [file EXCEPT ![f] =
          [size |-> upload[f].size, eicar |-> upload[f].eicar, antivirusStatus |-> "PENDING",
           isWithdrawn |-> FALSE, crossed |-> upload[f].crossed]]
    /\ upload' = [upload EXCEPT ![f].pc = "schedule"]
    /\ UNCHANGED <<timers, scan, withdrawal, signed, download, served, restarts>>

ScheduleScan_Wrong(f) ==                      \* only files that look suspicious are scanned
    /\ upload[f] # NULL /\ upload[f].pc = "schedule"
    /\ timers' = IF upload[f].eicar THEN timers \cup {f} ELSE timers
    /\ upload' = [upload EXCEPT ![f] = NULL]
    /\ UNCHANGED <<file, scan, withdrawal, signed, download, served, restarts>>

ScheduleScan(f) ==
    /\ upload[f] # NULL /\ upload[f].pc = "schedule"
    /\ timers' = timers \cup {f}
    /\ upload' = [upload EXCEPT ![f] = NULL]
    /\ UNCHANGED <<file, scan, withdrawal, signed, download, served, restarts>>

UploadFails(f) ==
    /\ upload[f] # NULL /\ upload[f].pc = "store"
    /\ upload' = [upload EXCEPT ![f] = NULL]
    /\ UNCHANGED <<file, timers, scan, withdrawal, signed, download, served, restarts>>

-----------------------------------------------------------------------------
(* runScan: the timer reads the object, then writes the verdict; an object     *)
(* that cannot be read is an error.                                         *)
Verdict_Wrong(eicar, readable) ==             \* an unreadable file is taken for clean
    IF eicar /\ readable THEN "INFECTED" ELSE "CLEAN"

Verdict(eicar, readable) ==
    CASE ~readable           -> "ERROR"
      [] readable /\ eicar   -> "INFECTED"
      [] readable /\ ~eicar  -> "CLEAN"

ReadForScan(f) ==
    /\ f \in timers
    /\ timers' = timers \ {f}
    /\ \E readable \in BOOLEAN : scan' = [scan EXCEPT ![f] = Verdict(file[f].eicar, readable)]
    /\ UNCHANGED <<file, upload, withdrawal, signed, download, served, restarts>>

WriteVerdict(f) ==
    /\ scan[f] # NULL
    /\ file' = [file EXCEPT ![f].antivirusStatus = scan[f]]
    /\ scan' = [scan EXCEPT ![f] = NULL]
    /\ UNCHANGED <<upload, timers, withdrawal, signed, download, served, restarts>>

(* withdraw: the row is loaded, then saved whole; the status of the antivirus   *)
(* it was loaded with comes back.                                           *)
LoadForWithdrawal(f) ==
    /\ f \in Rows
    /\ withdrawal[f] = NULL
    /\ ~file[f].isWithdrawn
    /\ Cardinality({g \in Rows : file[g].isWithdrawn \/ withdrawal[g] # NULL}) < MaxWithdrawn
    /\ withdrawal' = [withdrawal EXCEPT ![f] = file[f]]
    /\ UNCHANGED <<file, upload, timers, scan, signed, download, served, restarts>>

SaveWithdrawal(f) ==
    /\ withdrawal[f] # NULL
    /\ file' = [file EXCEPT ![f] = [withdrawal[f] EXCEPT !.isWithdrawn = TRUE]]
    /\ withdrawal' = [withdrawal EXCEPT ![f] = NULL]
    /\ UNCHANGED <<upload, timers, scan, signed, download, served, restarts>>

-----------------------------------------------------------------------------
(* list signs a link for what can be downloaded; the link expires; a download  *)
(* checks the row, then reads the object.                                   *)
Downloadable(row) == ~row.isWithdrawn /\ row.antivirusStatus = "CLEAN"

Sign(f) ==
    /\ f \in Rows \ signed
    /\ Downloadable(file[f])
    /\ signed' = signed \cup {f}
    /\ UNCHANGED <<file, upload, timers, scan, withdrawal, download, served, restarts>>

Expire(f) ==
    /\ f \in signed
    /\ signed' = signed \ {f}
    /\ UNCHANGED <<file, upload, timers, scan, withdrawal, download, served, restarts>>

CheckDownload(f) ==
    /\ f \in signed \ download
    /\ Downloadable(file[f])
    /\ download' = download \cup {f}
    /\ UNCHANGED <<file, upload, timers, scan, withdrawal, signed, served, restarts>>

SendContent(f) ==
    /\ f \in download
    /\ served' = served \cup {f}
    /\ download' = download \ {f}
    /\ UNCHANGED <<file, upload, timers, scan, withdrawal, signed, restarts>>

(* The process stops: its timers and the calls in flight are gone.            *)
Restart ==
    /\ restarts < MaxRestarts
    /\ restarts' = restarts + 1
    /\ timers' = {}
    /\ upload' = [f \in Files |-> NULL]
    /\ scan' = [f \in Files |-> NULL]
    /\ withdrawal' = [f \in Files |-> NULL]
    /\ download' = {}
    /\ UNCHANGED <<file, signed, served>>

AttachmentsNext ==
    \/ \E f \in Files :
         \/ \E size \in Sizes, eicar \in BOOLEAN : CheckQuota(f, size, eicar)
         \/ Store(f) \/ SaveRow(f) \/ ScheduleScan(f) \/ UploadFails(f)
         \/ ReadForScan(f) \/ WriteVerdict(f)
         \/ LoadForWithdrawal(f) \/ SaveWithdrawal(f)
         \/ Sign(f) \/ Expire(f) \/ CheckDownload(f) \/ SendContent(f)
    \/ Restart

AttachmentsSpec == AttachmentsInit /\ [][AttachmentsNext]_attachmentsVars

-----------------------------------------------------------------------------
(* The files of a request stay within its quota, withdrawn and infected ones    *)
(* apart, unless uploads overlapped: each then saw room for itself only.       *)
QuotaHolds ==
    Bytes(Counted) <= Quota \/ \E f \in Counted : file[f].crossed

(* No file with the signature of the antivirus test is ever sent, whatever the  *)
(* order of scans, withdrawals, restarts and links.                          *)
InfectedNeverServed == \A f \in served : ~file[f].eicar

(* A file that is pending has a scan to come, unless the API restarted or a     *)
(* withdrawal wrote the status it had loaded back.                           *)
PendingHasAScan ==
    \A f \in Rows :
        file[f].antivirusStatus = "PENDING" =>
            \/ f \in timers \/ scan[f] # NULL \/ upload[f] # NULL
            \/ restarts > 0 \/ file[f].isWithdrawn
=============================================================================
