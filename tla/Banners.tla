-------------------------------- MODULE Banners --------------------------------
(***************************************************************************)
(* upload_project_banner: a request body is streamed into a temporary file *)
(* of its own, checked, renamed and then named by the project's row, whose *)
(* UPDATE is a transaction among those of RowLocks.  The file system and   *)
(* the database share no transaction, and an upload may end anywhere.      *)
(*                                                                         *)
(*   create    the temporary file                                          *)
(*   stream    chunks are written until the body ends or is refused        *)
(*   finish    flush and look at the first twelve bytes                    *)
(*   discard   remove the temporary file, whether that works or not        *)
(*   rename    the temporary file gets its name                            *)
(*   update    UPDATE projects SET banner_url                              *)
(*                                                                         *)
(* Every upload has file names of its own, so a file is named by it.       *)
(***************************************************************************)
EXTENDS RowLocks

VARIABLES
  upc, target,     \* an upload's step and the project in its path
  body,            \* what the request sent
  temporary,       \* uploads whose .upload file exists
  stored,          \* uploads whose banner file exists
  banner,          \* projects.banner_url
  excused          \* history: uploads dropped, or failed by the file system

fileVars == <<temporary, stored>>
bannerVars == <<upc, target, body, fileVars, banner, excused>>
vars == <<lockVars, bannerVars>>

UploadPcs == {"start", "create", "stream", "finish", "discard", "rename", "update", "done"}
Bodies == {"image", "other"}

Init ==
    /\ RowLocksInit
    /\ upc = [u \in Uploads |-> "start"]
    /\ target = [u \in Uploads |-> None]
    /\ body = [u \in Uploads |-> None]
    /\ temporary = {}
    /\ stored = {}
    /\ banner = [p \in Projects |-> None]
    /\ excused = {}

Goto(u, label) == upc' = [upc EXCEPT ![u] = label]

-----------------------------------------------------------------------------
\* own_project_or_admin finds the project.
StartUpload(u, p) ==
    /\ upc[u] = "start"
    /\ p \in projects
    /\ target' = [target EXCEPT ![u] = p]
    /\ Goto(u, "create")
    /\ UNCHANGED <<body, fileVars, banner, excused>>

CreateFile(u) ==
    /\ upc[u] = "create"
    /\ \/ temporary' = temporary \union {u} /\ Goto(u, "stream")
       \/ UNCHANGED temporary /\ Goto(u, "done")
    /\ UNCHANGED <<target, body, stored, banner, excused>>

NoCleanup == "done"
AfterRefusal == "discard"

\* A chunk is an error, takes the body over the limit or cannot be written.
StreamFails(u) ==
    /\ upc[u] = "stream"
    /\ Goto(u, AfterRefusal)
    /\ UNCHANGED <<target, body, fileVars, banner, excused>>

Stream(u, b) ==
    /\ upc[u] = "stream"
    /\ body' = [body EXCEPT ![u] = b]
    /\ Goto(u, "finish")
    /\ UNCHANGED <<target, fileVars, banner, excused>>

Accepted(b) == b = "image"

\* Nothing was sent, flush fails, or image_extension knows no such signature.
Finish(u) ==
    /\ upc[u] = "finish"
    /\ \/ Accepted(body[u]) /\ Goto(u, "rename")
       \/ Goto(u, AfterRefusal)
    /\ UNCHANGED <<target, body, fileVars, banner, excused>>

Discard(u) ==
    /\ upc[u] = "discard"
    /\ \/ temporary' = temporary \ {u} /\ UNCHANGED excused
       \/ UNCHANGED temporary /\ excused' = excused \union {u}
    /\ Goto(u, "done")
    /\ UNCHANGED <<target, body, stored, banner>>

\* A rename that fails leaves the temporary file.
RenameForgotten(u) ==
    /\ upc[u] = "rename"
    /\ Goto(u, "update")
    /\ UNCHANGED <<target, body, fileVars, banner, excused>>

Rename(u) ==
    /\ upc[u] = "rename"
    /\ \/ /\ temporary' = temporary \ {u}
          /\ stored' = stored \union {u}
          /\ Goto(u, "update")
          /\ UNCHANGED excused
       \/ Goto(u, "done") /\ excused' = excused \union {u} /\ UNCHANGED fileVars
    /\ UNCHANGED <<target, body, banner>>

BeginUpdate(u) ==
    /\ upc[u] = "update"
    /\ Begin(u, [kind |-> "banner", of |-> target[u]])
    /\ UNCHANGED bannerVars

\* The statement waits for the row, and commits by itself.
UpdateRow(u) ==
    /\ upc[u] = "update"
    /\ Commit(u)
    /\ banner' = [banner EXCEPT ![target[u]] = u]
    /\ Goto(u, "done")
    /\ UNCHANGED <<target, body, fileVars, excused>>

\* The project is gone, or the statement fails.
UpdateNothing(u) ==
    /\ upc[u] = "update"
    /\ \/ (\E w \in Upcoming(u) : Miss(u, w)) /\ UNCHANGED rowVars
       \/ GiveUp(u)
    /\ Goto(u, "done")
    /\ UNCHANGED <<target, body, fileVars, banner, excused>>

\* The client goes away, the timeout fires or the process dies.  What a step
\* had begun may still happen: that is the step first.
DropUpload(u) ==
    /\ upc[u] \notin {"start", "done"}
    /\ Ends(u)
    /\ Goto(u, "done")
    /\ excused' = excused \union {u}
    /\ UNCHANGED <<rowVars, target, body, fileVars, banner>>

UploadStep(u) ==
    \/ /\ \/ \E p \in Projects : StartUpload(u, p)
          \/ CreateFile(u) \/ StreamFails(u) \/ (\E b \in Bodies : Stream(u, b)) \/ Finish(u) \/ Discard(u) \/ Rename(u)
       /\ UNCHANGED lockVars
    \/ BeginUpdate(u) \/ UpdateRow(u) \/ UpdateNothing(u) \/ DropUpload(u)
    \/ (\E w \in Upcoming(u) : Take(u, w)) /\ UNCHANGED <<rowVars, bannerVars>>

Next ==
    \/ \E t \in Tasks : TaskStep(t) /\ UNCHANGED bannerVars
    \/ \E u \in Uploads : UploadStep(u)

Spec == Init /\ [][Next]_vars

-----------------------------------------------------------------------------
\* Every variable holds what its column, path or local variable can hold.
TypeOK ==
    /\ RowLocksTypeOK
    /\ upc \in [Uploads -> UploadPcs]
    /\ target \in [Uploads -> Projects \union {None}]
    /\ body \in [Uploads -> Bodies \union {None}]
    /\ temporary \subseteq Uploads
    /\ stored \subseteq Uploads
    /\ banner \in [Projects -> Uploads \union {None}]
    /\ excused \subseteq Uploads

\* What a project shows as its banner is an image, and the file is there.
BannerServed ==
    \A p \in projects : banner[p] # None => banner[p] \in stored /\ body[banner[p]] = "image"

\* A finished upload leaves no temporary file behind, however it was refused,
\* unless it was dropped or the file system failed it.
NoLeftovers == \A u \in temporary : upc[u] = "done" => u \in excused
=============================================================================
