------------------------------ MODULE ServerFiles ------------------------------
(***************************************************************************)
(* Server Files: uploads, copies, moves, deletions and new directories      *)
(* inside the configured roots, each audited before and after               *)
(* (server_files/service.py, views.py, audit.py, policy.py).                *)
(*                                                                         *)
(* Several requests and programs of the server itself act on the same       *)
(* directories.  A place is a name in an opened directory; what it shows is *)
(* a thing: a file or a directory.  A file is two chunks long, and a chunk  *)
(* is the number of the write it came from.                                 *)
(*                                                                         *)
(* Assumed: no two writes leave one stamp.  The code compares mtime_ns and  *)
(* ctime_ns, and a coarse clock may give two writes the same.               *)
(***************************************************************************)
EXTENDS Naturals, Sequences

CONSTANTS Ops,        \* requests to server_files_operation
          Places,     \* names operations are about
          MaxWrites,  \* writes by programs of the server
          MaxFileFaults   \* system calls that fail

\* Things: what was at a place at first, and what each request makes.
Things == Ops \cup Places
Nothing == "nothing"

ASSUME FilesBounds == /\ MaxWrites \in Nat /\ MaxFileFaults \in Nat
                      /\ Ops \cap Places = {} /\ Nothing \notin Things

Kinds == {"upload", "copy", "move", "delete", "mkdir"}
Chunks == 0..MaxWrites
Content == {<<>>} \cup {<<a>> : a \in Chunks} \cup {<<a, b>> : a \in Chunks, b \in Chunks}

VARIABLES entries,    \* what each place shows
          dirs,       \* things that are directories
          content,    \* of the files
          stamp,      \* their modification: the last write
          op,         \* the requests
          temp,       \* requests whose .part file exists
          audit,      \* their rows of ServerFileOperation
          changed,    \* history: requests that changed what a place shows
          kept,       \* history: things once shown that no deletion removed
          moments,    \* history: contents the source had while it was copied
          writes, fileFaults  \* bounds

filesVars == <<entries, dirs, content, stamp, op, temp, audit, changed, kept,
               moments, writes, fileFaults>>

listing == <<entries, dirs, kept, changed>>
files == <<content, stamp, writes>>
written == <<files, moments>>

Op == [kind: Kinds, at: {"idle", "start", "write", "check", "link", "sync", "act",
                         "failed", "finish", "over"},
       from: Places \cup {Nothing}, to: Places \cup {Nothing},
       thing: Things \cup {Nothing},      \* the source that was opened or looked at
       stamp: 0..MaxWrites,               \* its modification then
       data: Content,                     \* written to the .part file
       body: 0..2]                        \* chunks an upload sends

FilesTypeOK ==
  /\ entries \in [Places -> Things \cup {Nothing}]
  /\ dirs \subseteq Things
  /\ content \in [Things -> Content] /\ stamp \in [Things -> 0..MaxWrites]
  /\ op \in [Ops -> Op] /\ temp \subseteq Ops
  /\ audit \in [Ops -> {"none", "started", "success", "failed", "denied"}]
  /\ changed \subseteq Ops /\ kept \subseteq Things
  /\ \A o \in temp \cup changed : audit[o] # "none"
  /\ moments \in [Ops -> SUBSET Content]
  /\ writes \in 0..MaxWrites /\ fileFaults \in 0..MaxFileFaults

NoRequest == [kind |-> "delete", at |-> "idle", from |-> Nothing, to |-> Nothing,
              thing |-> Nothing, stamp |-> 0, data |-> <<>>, body |-> 0]

FilesInit ==
  /\ entries \in [Places -> Places \cup {Nothing}]
  /\ \A p \in Places : entries[p] \in {p, Nothing}
  /\ dirs \in SUBSET {p \in Places : entries[p] = p}
  /\ content = [x \in Things |-> IF x \in Places THEN <<0, 0>> ELSE <<>>]
  /\ stamp = [x \in Things |-> 0]
  /\ op = [o \in Ops |-> NoRequest]
  /\ temp = {} /\ audit = [o \in Ops |-> "none"]
  /\ changed = {} /\ kept = {p \in Places : entries[p] = p} /\ moments = [o \in Ops |-> {}]
  /\ writes = 0 /\ fileFaults = 0

-----------------------------------------------------------------------------
(* The request.                                                            *)

At(o, kind, step) == op[o].kind = kind /\ op[o].at = step

Goes(o, step) == op' = [op EXCEPT ![o].at = step]

\* The request ends and forgets what it opened.
Ends(o) ==
  /\ op' = [op EXCEPT ![o] = [NoRequest EXCEPT !.at = "over"]]
  /\ moments' = [moments EXCEPT ![o] = {}]

\* server_files_operation up to the audit row, without which nothing is done.
Request(o, kind, p, q, n) ==
  /\ op[o].at = "idle"
  /\ kind \in {"delete"} => q = p
  /\ kind \in {"upload", "mkdir"} => p = q
  /\ kind # "upload" => n = 0
  /\ op' = [op EXCEPT ![o] = [@ EXCEPT !.kind = kind, !.at = "start", !.from = p,
                                       !.to = q, !.body = n]]
  /\ audit' = [audit EXCEPT ![o] = "started"]
  /\ UNCHANGED <<listing, written, temp, fileFaults>>

\* The rate limit, a capability, a password not confirmed lately or no audit row:
\* the request ends; a capability that is missing leaves a row.
Refuse(o, row) ==
  /\ op[o].at = "idle"
  /\ Ends(o)
  /\ audit' = [audit EXCEPT ![o] = row]
  /\ UNCHANGED <<listing, files, temp, fileFaults>>

\* finish_operation; a row that cannot be saved stays "started".
FinishOperation(o, status) ==
  /\ op[o].at = IF status = "success" THEN "finish" ELSE "failed"
  /\ Ends(o)
  /\ temp' = temp \ {o}
  /\ audit' = [audit EXCEPT ![o] = status]
  /\ UNCHANGED <<listing, files, fileFaults>>

FinishUnsaved(o) ==
  /\ op[o].at \in {"finish", "failed"} /\ fileFaults < MaxFileFaults
  /\ Ends(o) /\ fileFaults' = fileFaults + 1
  /\ temp' = temp \ {o}
  /\ UNCHANGED <<listing, files, audit>>

\* A system call fails, or the policy refuses the path after all.
Fault(o) ==
  /\ op[o].at \notin {"idle", "failed", "finish", "over"} /\ fileFaults < MaxFileFaults
  /\ Goes(o, "failed") /\ fileFaults' = fileFaults + 1
  /\ UNCHANGED <<listing, written, temp, audit>>

\* The process dies: the row stays "started" and the .part file stays.
Dies(o) ==
  /\ op[o].at \notin {"idle", "over"} /\ fileFaults < MaxFileFaults
  /\ Ends(o) /\ fileFaults' = fileFaults + 1
  /\ UNCHANGED <<listing, files, temp, audit>>

-----------------------------------------------------------------------------
(* upload_file and copy_file: everything goes to a .part file first.       *)

UploadStart(o) ==
  /\ At(o, "upload", "start")
  /\ Goes(o, "write") /\ temp' = temp \cup {o}
  /\ moments' = [moments EXCEPT ![o] = {<<0, 0>>}]
  /\ UNCHANGED <<listing, content, stamp, writes, audit, fileFaults>>

UploadChunk(o) ==
  /\ At(o, "upload", "write")
  /\ op' = [op EXCEPT ![o].at = IF Len(op[o].data) = op[o].body THEN "check" ELSE "write",
                      ![o].data = IF Len(@) = op[o].body THEN @ ELSE Append(@, 0)]
  /\ UNCHANGED <<listing, written, temp, audit, fileFaults>>

\* The source is opened: a regular file, whatever its place shows later.
CopyStart(o) ==
  LET s == entries[op[o].from] IN
  /\ At(o, "copy", "start")
  /\ IF s = Nothing \/ s \in dirs
     THEN /\ Goes(o, "failed") /\ UNCHANGED <<temp, moments>>
     ELSE /\ op' = [op EXCEPT ![o].at = "write", ![o].thing = s, ![o].stamp = stamp[s]]
          /\ temp' = temp \cup {o}
          /\ moments' = [moments EXCEPT ![o] = {content[s]}]
  /\ UNCHANGED <<listing, content, stamp, writes, audit, fileFaults>>

CopyChunk(o) ==
  LET n == Len(op[o].data) + 1
      source == content[op[o].thing]
  IN /\ At(o, "copy", "write")
     /\ op' = [op EXCEPT ![o].at = IF n > Len(source) THEN "check" ELSE "write",
                         ![o].data = IF n > Len(source) THEN @ ELSE Append(@, source[n])]
     /\ UNCHANGED <<listing, written, temp, audit, fileFaults>>

\* The slip of a copy that only compares sizes.
WholeBySize(o) == Len(op[o].data) = 2

\* All of the declared size was written; the source is as it was when opened.
WholeBody(o) ==
  IF op[o].kind = "upload" THEN Len(op[o].data) = 2 ELSE stamp[op[o].thing] = op[o].stamp

Check(o) ==
  /\ op[o].at = "check"
  /\ Goes(o, IF WholeBody(o) THEN "link" ELSE "failed")
  /\ UNCHANGED <<listing, written, temp, audit, fileFaults>>

\* The slip of looking before the call instead.
FreeUnseen(p) == TRUE

\* link() and renameat2(RENAME_NOREPLACE) refuse a place that shows something.
Free(p) == entries[p] = Nothing

Link(o) ==
  /\ op[o].at = "link"
  /\ IF Free(op[o].to)
     THEN /\ Goes(o, "sync")
          /\ entries' = [entries EXCEPT ![op[o].to] = o]
          /\ content' = [content EXCEPT ![o] = op[o].data]
          /\ changed' = changed \cup {o} /\ kept' = kept \cup {o}
     ELSE Goes(o, "failed") /\ UNCHANGED <<entries, content, changed, kept>>
  /\ UNCHANGED <<dirs, stamp, moments, writes, temp, audit, fileFaults>>

\* The .part name goes and the directory is synced; when that fails, the request
\* fails although its change is there.
Sync(o) ==
  /\ op[o].at = "sync"
  /\ Goes(o, "finish") /\ temp' = temp \ {o}
  /\ UNCHANGED <<listing, written, audit, fileFaults>>

-----------------------------------------------------------------------------
(* rename_or_move, delete_item, create_directory.                          *)

\* The entry is looked at by name, and acted on by name later.
Look(o) ==
  /\ op[o].kind \in {"move", "delete"} /\ op[o].at = "start"
  /\ op' = IF Free(op[o].from) THEN [op EXCEPT ![o].at = "failed"]
           ELSE [op EXCEPT ![o].at = "act", ![o].thing = entries[op[o].from]]
  /\ UNCHANGED <<listing, written, temp, audit, fileFaults>>

Move(o) ==
  LET s == entries[op[o].from] IN
  /\ At(o, "move", "act")
  /\ IF s # Nothing /\ Free(op[o].to)
     THEN /\ entries' = [entries EXCEPT ![op[o].from] = Nothing, ![op[o].to] = s]
          /\ changed' = changed \cup {o} /\ Goes(o, "sync")
     ELSE Goes(o, "failed") /\ UNCHANGED <<entries, changed>>
  /\ UNCHANGED <<dirs, kept, written, temp, audit, fileFaults>>

\* unlink or rmdir, by what the entry was: the other kind is refused.
Unlink(o) ==
  LET s == entries[op[o].from] IN
  /\ At(o, "delete", "act")
  /\ IF s # Nothing /\ (s \in dirs <=> op[o].thing \in dirs)
     THEN /\ entries' = [entries EXCEPT ![op[o].from] = Nothing]
          /\ kept' = kept \ {s}
          /\ changed' = changed \cup {o} /\ Goes(o, "sync")
     ELSE Goes(o, "failed") /\ UNCHANGED <<entries, kept, changed>>
  /\ UNCHANGED <<dirs, written, temp, audit, fileFaults>>

MakeDirectory(o) ==
  /\ At(o, "mkdir", "start")
  /\ IF Free(op[o].to)
     THEN /\ entries' = [entries EXCEPT ![op[o].to] = o] /\ dirs' = dirs \cup {o}
          /\ changed' = changed \cup {o} /\ kept' = kept \cup {o} /\ Goes(o, "sync")
     ELSE Goes(o, "failed") /\ UNCHANGED listing
  /\ UNCHANGED <<written, temp, audit, fileFaults>>

\* A program of the server writes one chunk of a file it has open.
Write(p, i) ==
  LET f == entries[p] IN
  /\ writes < MaxWrites /\ f # Nothing /\ f \notin dirs
  /\ writes' = writes + 1
  /\ content' = [content EXCEPT ![f][i] = writes + 1]
  /\ stamp' = [stamp EXCEPT ![f] = writes + 1]
  /\ moments' = [o \in Ops |-> IF op[o].thing = f THEN moments[o] \cup {content'[f]}
                               ELSE moments[o]]
  /\ UNCHANGED <<listing, op, temp, audit, fileFaults>>

\* A program makes a file under a name that is free, whatever a request has seen there.
Create(p) ==
  /\ writes < MaxWrites /\ entries[p] = Nothing
  /\ p \notin kept /\ \A o \in Ops : op[o].thing # p
  /\ writes' = writes + 1
  /\ entries' = [entries EXCEPT ![p] = p]
  /\ dirs' = dirs \ {p} /\ kept' = kept \cup {p}
  /\ UNCHANGED <<changed, content, stamp, moments, op, temp, audit, fileFaults>>

FilesNext ==
  \/ \E o \in Ops :
       \/ \E kind \in Kinds, p, q \in Places, n \in 0..2 : Request(o, kind, p, q, n)
       \/ \E row \in {"none", "denied"} : Refuse(o, row)
       \/ \E status \in {"success", "failed", "denied"} : FinishOperation(o, status)
       \/ FinishUnsaved(o) \/ Fault(o) \/ Dies(o)
       \/ UploadStart(o) \/ UploadChunk(o) \/ CopyStart(o) \/ CopyChunk(o)
       \/ Check(o) \/ Link(o) \/ Sync(o)
       \/ Look(o) \/ Move(o) \/ Unlink(o) \/ MakeDirectory(o)
  \/ \E p \in Places : Create(p) \/ \E i \in 1..2 : Write(p, i)

FilesSpec == FilesInit /\ [][FilesNext]_filesVars

-----------------------------------------------------------------------------
(* Properties.                                                             *)

\* "No silent overwrite": whatever requests run side by side, what was once shown is
\* still shown, at exactly one place, unless a deletion removed it.
NothingIsLost ==
  /\ kept = {entries[p] : p \in Places} \ {Nothing}
  /\ \A p, q \in Places : entries[p] = entries[q] /\ p # q => Free(p)

\* What a request shows is never a part: an upload is all of its body, and a copy is
\* what the source was at one moment, though programs write the source meanwhile.
PublishedIsWhole ==
  \A o \in Ops : op[o].at = "sync" /\ op[o].kind \in {"upload", "copy"}
                   => op[o].data \in moments[o]

=============================================================================
