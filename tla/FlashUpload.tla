----------------------------- MODULE FlashUpload -----------------------------
(***************************************************************************)
(* The web flasher, main/network/flash_web.c: an Intel HEX file collected  *)
(* over HTTP, record by record, and the job that writes the collected      *)
(* image - program flash, then, when asked, the boot mode headers          *)
(* (UcbWriter) - in a task of its own while the server serves on.          *)
(*                                                                         *)
(* The handlers run in the one task of the server and so one at a time; an *)
(* upload blocks it in httpd_req_recv.  A chunk is one record: feed keeps  *)
(* a record split across two chunks.  The session that writes program      *)
(* flash is FlashSession; here it succeeds, verified, or fails.            *)
(***************************************************************************)
EXTENDS UcbWriter

CONSTANTS
  Files,    \* the files a client may upload: sequences of records
  MaxJobs   \* bound: jobs started

(* A record that adds up carries program flash bytes, pages of a block, or *)
(* bytes nobody wants (a type 01, 03 or 05 record, or an address outside); *)
(* one that does not is bad.                                               *)
Records == [kind : {"pf", "none", "bad"}] \cup
           [kind : {"ucb"}, block : Blocks, pages : SUBSET Pages, bytes : {"img", "lock"}]

ASSUME UploadAssumption ==
  /\ \A f \in Files : f \in Seq(Records)
  /\ MaxJobs \in Nat

NoFile == <<>>

(* Program flash written from no file, or left half written. *)
OldFlash == <<[kind |-> "old"]>>
Broken == <<[kind |-> "broken"]>>

VARIABLES
  file,    \* the file of the last upload
  got,     \* records of it that arrived
  server,  \* the server's task: "idle" or "upload"
  task,    \* s_flash_task: "none", or where flash_task is
  headers, \* s_ucb is set: the boot mode headers are to be written too
  flash,   \* target, program flash: the records it was written from
  status,  \* tricore_flash_status.phase once the job is over
  jobs,    \* number of jobs started
  accepted \* history: the last upload was answered "ok"

uploadVars == <<file, got, server, accepted>>
jobVars == <<task, headers, flash, status, jobs>>
vars == <<ucbVars, uploadVars, jobVars>>

-----------------------------------------------------------------------------
(* s_image, as parse_record builds it from the records that arrived: none  *)
(* counts after the first bad one.                                         *)
Arrived == SubSeq(file, 1, got)
Bad == \E i \in 1 .. got : file[i].kind = "bad"
Carries(f, n) == \E i \in 1 .. n : f[i].kind = "pf"
HasBytes == Carries(file, got)

UcbRecords == {i \in 1 .. got : file[i].kind = "ucb"}
UcbImage ==
  [b \in {file[i].block : i \in UcbRecords} |->
     [p \in Pages |->
        LET here == {i \in UcbRecords : file[i].block = b /\ p \in file[i].pages}
            Latest(v) == \E i \in here : file[i].bytes = v /\ \A j \in here : j <= i
        IN  CASE Latest("lock") -> "lock" [] Latest("img") -> "img" [] OTHER -> "erased"]]

Init ==
  /\ UcbInit
  /\ file = NoFile /\ got = 0 /\ server = "idle" /\ accepted = FALSE
  /\ task = "none" /\ headers = FALSE /\ flash = OldFlash /\ status = "idle" /\ jobs = 0

-----------------------------------------------------------------------------
(* POST /api/flash/upload *)

(* Not while a job runs (409); the old image is gone with the first byte. *)
UploadBegin(f) ==
  /\ server = "idle" /\ task = "none"
  /\ server' = "upload"
  /\ file' = f /\ got' = 0 /\ accepted' = FALSE
  /\ UNCHANGED <<ucbVars, jobVars>>

(* No buffer for the upload: the image was reset all the same. *)
UploadNoBuffer ==
  /\ server = "idle" /\ task = "none"
  /\ file' = NoFile /\ got' = 0 /\ accepted' = FALSE
  /\ UNCHANGED <<ucbVars, jobVars, server>>

Feed ==
  /\ server = "upload" /\ got < Len(file)
  /\ got' = got + 1
  /\ UNCHANGED <<ucbVars, jobVars, file, server, accepted>>

(* httpd_req_recv fails: the client is told, the image is kept as it is. *)
UploadBreaks ==
  /\ server = "upload" /\ got < Len(file)
  /\ server' = "idle"
  /\ UNCHANGED <<ucbVars, jobVars, file, got, accepted>>

UploadDone ==
  /\ server = "upload" /\ got = Len(file)
  /\ server' = "idle"
  /\ accepted' = (~Bad /\ HasBytes)
  /\ UNCHANGED <<ucbVars, jobVars, file, got>>

-----------------------------------------------------------------------------
(* POST /api/flash/start *)

Startable == task = "none" /\ HasBytes /\ ~Bad

Start(ask) ==
  /\ server = "idle" /\ jobs < MaxJobs
  /\ Startable
  /\ headers' = ask
  /\ task' = "flash" /\ jobs' = jobs + 1
  /\ UNCHANGED <<ucbVars, uploadVars, flash, status>>

(* xTaskCreate fails. *)
StartFails ==
  /\ server = "idle" /\ Startable
  /\ headers' = FALSE
  /\ UNCHANGED <<ucbVars, uploadVars, task, flash, status, jobs>>

-----------------------------------------------------------------------------
(* flash_task: tricore_flash_write and what write_locked does in it. *)

(* begin and apply: programmed and verified, from the image as it is now. *)
Apply ==
  /\ task = "flash"
  /\ flash' = Arrived
  /\ task' = IF headers THEN "headers" ELSE "end"
  /\ UNCHANGED <<ucbVars, uploadVars, headers, status, jobs>>

(* Mutant: the headers are written whatever became of program flash. *)
ApplyFailsGoesOn ==
  /\ task = "flash"
  /\ flash' \in {flash, Broken}
  /\ status' = "failed"
  /\ task' = IF headers THEN "headers" ELSE "leave"
  /\ UNCHANGED <<ucbVars, uploadVars, headers, jobs>>

(* Left halted, for inspection; what the sectors hold is anybody's guess. *)
ApplyFails ==
  /\ task = "flash"
  /\ flash' \in {flash, Broken}
  /\ status' = "failed"
  /\ task' = "leave"
  /\ UNCHANGED <<ucbVars, uploadVars, headers, jobs>>

Headers ==
  /\ task = "headers"
  /\ UcbBegin(UcbImage)
  /\ task' = "ucb"
  /\ UNCHANGED <<uploadVars, headers, flash, status, jobs>>

(* tricore_ucb_program. *)
HeadersStep ==
  /\ task = "ucb"
  /\ UcbStep
  /\ UNCHANGED <<uploadVars, jobVars>>

(* tricore_flash_end resets the target, whatever the headers did; the job  *)
(* is done only when both the end and the headers are well.                *)
End ==
  /\ \/ task = "end" /\ UcbReset
        /\ status' \in {"done", "failed"}
     \/ task = "ucb" /\ UcbEnd
        /\ status' \in (IF ucbRes = "ok" THEN {"done", "failed"} ELSE {"failed"})
  /\ task' = "leave"
  /\ UNCHANGED <<uploadVars, headers, flash, jobs>>

(* Mutant: the task is deleted with its handle left behind. *)
LeaveHandle ==
  /\ task = "leave"
  /\ headers' = FALSE
  /\ UNCHANGED <<ucbVars, uploadVars, task, flash, status, jobs>>

Leave ==
  /\ task = "leave"
  /\ headers' = FALSE /\ task' = "none"
  /\ UNCHANGED <<ucbVars, uploadVars, flash, status, jobs>>

Job == Apply \/ ApplyFails \/ Headers \/ HeadersStep \/ End \/ Leave

Server == \/ \E f \in Files : UploadBegin(f)
          \/ UploadNoBuffer \/ Feed \/ UploadBreaks \/ UploadDone
          \/ \E ask \in BOOLEAN : Start(ask)
          \/ StartFails

Next == Job \/ Server

Spec == Init /\ [][Next]_vars /\ WF_vars(Job)

-----------------------------------------------------------------------------
(* Properties. *)

TypeOK ==
  /\ UcbTypeOK
  /\ file \in Files \cup {NoFile} /\ got \in 0 .. Len(file)
  /\ server \in {"idle", "upload"} /\ accepted \in BOOLEAN
  /\ task \in {"none", "flash", "headers", "ucb", "end", "leave"}
  /\ headers \in BOOLEAN
  /\ status \in {"idle", "done", "failed"} /\ jobs \in 0 .. MaxJobs

(* tricore_flash.c:795-796: the headers are touched only after program     *)
(* flash holds the image that carries them, verified, and only by a job    *)
(* that was asked to.                                                      *)
FlashBeforeHeaders ==
  [][blk' # blk => headers /\ flash = Arrived /\ image = UcbImage]_vars

(* A job that reports "programmed, verified and started" left the image in *)
(* program flash and, when asked for, in every header the image carries.   *)
DoneMeansAll ==
  task = "leave" /\ status = "done" =>
    /\ flash = Arrived
    /\ headers => \A b \in Owned \cap DOMAIN UcbImage : blk[b] = UcbImage[b]

(* Every job ends, whatever fails: the server can take an upload again. *)
JobEnds == (task # "none") ~> (task = "none")

(* flash_web.c:344 answers a start with "upload an image first": what  *)
(* is programmed is an image whose upload was accepted.                    *)
OnlyAccepted == [][flash' # flash /\ flash' # Broken => accepted]_vars
=============================================================================
