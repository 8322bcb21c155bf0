------------------------------ MODULE Maildir ------------------------------
(***************************************************************************)
(* The message store of internal/maildir: <root>/<recipient>/{tmp,new,cur} *)
(* shared, with no lock, by the goroutines of SMTP sessions (Deliver) and  *)
(* of web requests (List, Open, Delete, Reader).  One action per system    *)
(* call that another goroutine can observe, so that every interleaving of  *)
(* the calls of concurrent operations is a behaviour, as is a kill of the  *)
(* process between any two of them.                                        *)
(*                                                                         *)
(* A message is its file name.  Deliver builds the name from the clock in  *)
(* nanoseconds, the process id, the host and 32 random bits; the model     *)
(* takes names to be unique.  os.ReadDir returns directories sorted by     *)
(* name; the model visits recipients in any order, which covers every way  *)
(* of naming them.  A directory that does not exist reads as an empty one, *)
(* which is how List and locate treat it.                                  *)
(***************************************************************************)
EXTENDS Naturals

CONSTANTS
  Ids,          \* message file names; bounds the number of deliveries
  Recipients,   \* recipients that pass the check at the top of Deliver
  Deliverers,   \* goroutines that call Deliver
  Requests,     \* goroutines that call Open, Delete or Reader
  Listers,      \* goroutines that call List
  Malformed,    \* the messages whose header block mail.ReadMessage rejects
  Faults,       \* the system calls that may fail for a reason of their own
  None          \* the value of a local variable that is not assigned yet

Syscalls == {"mkdir", "create", "write", "close", "rename", "remove", "read",
             "readdir", "stat"}

ASSUME FaultsAssumption == Faults \subseteq Syscalls

VARIABLES
  made,         \* recipients that have a directory
  tmp, new, cur,\* tmp[r], new[r], cur[r]: the files of the directories of r
  data,         \* data[i]: what the file of message i holds
  del,          \* del[d]: the frame of the Deliver that d runs
  req,          \* req[w]: the frame of the Open, Delete or Reader that w runs
  lst,          \* lst[l]: the frame of the List that l runs
  acked,        \* history: the messages whose Deliver returned their name
  failed,       \* history: the messages whose Deliver returned an error
  removed,      \* history: the messages that Delete removed
  wlive,        \* history: wlive[w] says that the message w asks for has been
                \* in the store ever since the request began
  llive         \* history: the messages that have been in the store ever since
                \* the List of l began

files   == <<made, tmp, new, cur, data>>
history == <<acked, failed, removed, wlive, llive>>
vars    == <<files, del, req, lst, history>>

-----------------------------------------------------------------------------
(* The file system.                                                        *)

Content == {"unused", "partial", "full"}

Stored(r) == new[r] \cup cur[r]

\* The messages that a listing should show.
Live == {i \in Ids : \E r \in Recipients : i \in Stored(r)}

Put(dir, r, i)  == [dir EXCEPT ![r] = @ \cup {i}]
Take(dir, r, i) == [dir EXCEPT ![r] = @ \ {i}]

\* The subdirectory named s of recipient r, as locate and List open it.
Sub(r, s) == IF s = "new" THEN new[r] ELSE cur[r]

\* The possible results of os.ReadDir and os.Stat there: their callers treat an
\* error as an empty directory, and as a file that does not exist.
ReadDir(r, s) == {Sub(r, s)} \cup {{} : f \in Faults \cap {"readdir"}}
Stat(r, s, i) == {(i \in Sub(r, s))} \cup {FALSE : f \in Faults \cap {"stat"}}

-----------------------------------------------------------------------------
(* Deliver.  A frame is the step about to be taken, or the outcome of the  *)
(* last call, and the local variables.                                     *)

DIdle  == {"idle", "ok", "failed"}
DSteps == DIdle \cup {"create", "write", "close", "rename", "cleanup"}

DFrame == [step : DSteps, rec : Recipients \cup {None}, id : Ids \cup {None}]

DReturned(outcome) == [step |-> outcome, rec |-> None, id |-> None]

\* Deliver is called for r and creates the directories of r.
DeliverMkdir(d, r) ==
  /\ del[d].step \in DIdle
  /\ \/ /\ made' = made \cup {r}
        /\ del' = [del EXCEPT ![d] = [step |-> "create", rec |-> r, id |-> None]]
     \/ /\ "mkdir" \in Faults
        /\ made' \in {made, made \cup {r}}
        /\ del' = [del EXCEPT ![d] = DReturned("failed")]
  /\ UNCHANGED <<tmp, new, cur, data, req, lst, history>>

\* Mutant: a failed creation falls through to the cleanup of the temporary file.
DeliverCreateNoReturn(d) ==
  /\ del[d].step = "create"
  /\ \/ \E i \in Ids :
          /\ data[i] = "unused"
          /\ data' = [data EXCEPT ![i] = "partial"]
          /\ tmp' = Put(tmp, del[d].rec, i)
          /\ del' = [del EXCEPT ![d] = [@ EXCEPT !.step = "write", !.id = i]]
     \/ /\ "create" \in Faults
        /\ del' = [del EXCEPT ![d].step = "cleanup"]
        /\ UNCHANGED <<data, tmp>>
  /\ UNCHANGED <<made, new, cur, req, lst, history>>

\* Mutant: the file is created in new/ from the start.
DeliverCreateInNew(d) ==
  /\ del[d].step = "create"
  /\ \/ \E i \in Ids :
          /\ data[i] = "unused"
          /\ data' = [data EXCEPT ![i] = "partial"]
          /\ new' = Put(new, del[d].rec, i)
          /\ del' = [del EXCEPT ![d] = [@ EXCEPT !.step = "write", !.id = i]]
     \/ /\ "create" \in Faults
        /\ del' = [del EXCEPT ![d] = DReturned("failed")]
        /\ UNCHANGED <<data, new>>
  /\ UNCHANGED <<made, tmp, cur, req, lst, history>>

\* O_EXCL creation of tmp/<id>, with a name nobody used before.
DeliverCreate(d) ==
  /\ del[d].step = "create"
  /\ \/ \E i \in Ids :
          /\ data[i] = "unused"
          /\ data' = [data EXCEPT ![i] = "partial"]
          /\ tmp' = Put(tmp, del[d].rec, i)
          /\ del' = [del EXCEPT ![d] = [@ EXCEPT !.step = "write", !.id = i]]
     \/ /\ "create" \in Faults
        /\ del' = [del EXCEPT ![d] = DReturned("failed")]
        /\ UNCHANGED <<data, tmp>>
  /\ UNCHANGED <<made, new, cur, req, lst, history>>

\* Write and Sync.  Both assign the err that the if statement declares, which
\* goes out of scope with it: a short write is never seen by the code below.
DeliverWrite(d) ==
  /\ del[d].step = "write"
  /\ \/ data' = [data EXCEPT ![del[d].id] = "full"]
     \/ /\ "write" \in Faults
        /\ UNCHANGED data
  /\ del' = [del EXCEPT ![d].step = "close"]
  /\ UNCHANGED <<made, tmp, new, cur, req, lst, history>>

DeliverClose(d) ==
  /\ del[d].step = "close"
  /\ \/ del' = [del EXCEPT ![d].step = "rename"]
     \/ /\ "close" \in Faults
        /\ del' = [del EXCEPT ![d].step = "cleanup"]
  /\ UNCHANGED <<files, req, lst, history>>

\* Mutant: the error of the rename is dropped like that of the write.
DeliverRenameUnchecked(d) ==
  /\ del[d].step = "rename"
  /\ \/ /\ tmp' = Take(tmp, del[d].rec, del[d].id)
        /\ new' = Put(new, del[d].rec, del[d].id)
     \/ /\ "rename" \in Faults
        /\ UNCHANGED <<tmp, new>>
  /\ acked' = acked \cup {del[d].id}
  /\ del' = [del EXCEPT ![d] = DReturned("ok")]
  /\ UNCHANGED <<made, cur, data, req, lst, failed, removed, wlive, llive>>

\* The message becomes visible, and Deliver returns its name.
DeliverRename(d) ==
  /\ del[d].step = "rename"
  /\ \/ /\ tmp' = Take(tmp, del[d].rec, del[d].id)
        /\ new' = Put(new, del[d].rec, del[d].id)
        /\ acked' = acked \cup {del[d].id}
        /\ del' = [del EXCEPT ![d] = DReturned("ok")]
     \/ /\ "rename" \in Faults
        /\ del' = [del EXCEPT ![d].step = "cleanup"]
        /\ UNCHANGED <<tmp, new, acked>>
  /\ UNCHANGED <<made, cur, data, req, lst, failed, removed, wlive, llive>>

\* os.Remove(tmpPath), its own error ignored, and Deliver returns the error.
DeliverCleanup(d) ==
  /\ del[d].step = "cleanup"
  /\ \/ tmp' = Take(tmp, del[d].rec, del[d].id)
     \/ /\ "remove" \in Faults
        /\ UNCHANGED tmp
  /\ failed' = failed \cup {del[d].id}
  /\ del' = [del EXCEPT ![d] = DReturned("failed")]
  /\ UNCHANGED <<made, new, cur, data, req, lst, acked, removed, wlive, llive>>

-----------------------------------------------------------------------------
(* Open, Delete and Reader, which all begin with locate.                   *)

WIdle  == {"idle", "ok", "notfound", "failed"}
WSteps == WIdle \cup {"locate", "second", "act", "mark"}
Ops    == {"open", "delete", "reader"}

\* op and id are the call; todo the recipients locate has not come to; rec and
\* sub the directory it looks at or, from step "act" on, found the message in.
WFrame == [step : WSteps, op : Ops, id : Ids \cup {None}, todo : SUBSET Recipients,
           rec : Recipients \cup {None}, sub : {"new", "cur"}]

WReturned(outcome) == [step |-> outcome, op |-> "open", id |-> None, todo |-> {},
                       rec |-> None, sub |-> "new"]

\* validID holds of every name in Ids; ReadDir(root) gives the recipients.
RequestBegin(w, op, i) ==
  /\ req[w].step \in WIdle
  /\ \/ req' = [req EXCEPT ![w] = [step |-> "locate", op |-> op, id |-> i,
                                   todo |-> made, rec |-> None, sub |-> "new"]]
     \/ /\ "readdir" \in Faults
        /\ req' = [req EXCEPT ![w] = WReturned("failed")]
  /\ wlive' = [wlive EXCEPT ![w] = i \in Live]
  /\ UNCHANGED <<files, del, lst, acked, failed, removed, llive>>

\* Mutant: locate looks into cur/ first.
LocateDirsSwapped == <<"cur", "new">>

\* The order in which locate looks into the directories of a recipient.
LocateDirs == <<"new", "cur">>

\* The next recipient r: os.Stat of <id> in its first directory.
LocateFirst(w) ==
  /\ req[w].step = "locate"
  /\ \E r \in req[w].todo : \E hit \in Stat(r, LocateDirs[1], req[w].id) :
       req' = [req EXCEPT ![w] = [req[w] EXCEPT !.rec = r,
                                                !.sub = LocateDirs[1],
                                                !.todo = @ \ {r},
                                                !.step = IF hit THEN "act" ELSE "second"]]
  /\ UNCHANGED <<files, del, lst, history>>

\* Then os.Stat of <id> in the second directory of r.
LocateSecond(w) ==
  /\ req[w].step = "second"
  /\ \E hit \in Stat(req[w].rec, LocateDirs[2], req[w].id) :
       req' = [req EXCEPT ![w] = [@ EXCEPT !.sub = LocateDirs[2],
                                           !.step = IF hit THEN "act" ELSE "locate"]]
  /\ UNCHANGED <<files, del, lst, history>>

\* No recipient left: fs.ErrNotExist.
LocateFail(w) ==
  /\ req[w].step = "locate"
  /\ req[w].todo = {}
  /\ req' = [req EXCEPT ![w] = WReturned("notfound")]
  /\ UNCHANGED <<files, del, lst, history>>

\* The path that locate returned still names a file.
Found(w) == req[w].id \in Sub(req[w].rec, req[w].sub)

\* os.ReadFile in Open, os.Open in Reader, on the path locate returned.
OpenRead(w) ==
  /\ req[w].step = "act"
  /\ req[w].op \in {"open", "reader"}
  /\ \/ /\ Found(w)
        /\ req' = [req EXCEPT ![w] = IF req[w].op = "open" /\ req[w].sub = "new"
                                     THEN [@ EXCEPT !.step = "mark"]
                                     ELSE WReturned("ok")]
     \/ /\ ~Found(w) \/ "read" \in Faults
        /\ req' = [req EXCEPT ![w] = WReturned("failed")]
  /\ UNCHANGED <<files, del, lst, history>>

\* Mutant: the bytes just read are written to cur/, whatever became of new/<id>.
OpenMarkByCopy(w) ==
  /\ req[w].step = "mark"
  /\ new' = Take(new, req[w].rec, req[w].id)
  /\ cur' = Put(cur, req[w].rec, req[w].id)
  /\ req' = [req EXCEPT ![w] = WReturned("ok")]
  /\ UNCHANGED <<made, tmp, data, del, lst, history>>

\* os.Rename of new/<id> to cur/<id>, the error ignored; Open returns the bytes.
OpenMark(w) ==
  /\ req[w].step = "mark"
  /\ \/ /\ req[w].id \in new[req[w].rec]
        /\ new' = Take(new, req[w].rec, req[w].id)
        /\ cur' = Put(cur, req[w].rec, req[w].id)
     \/ /\ req[w].id \notin new[req[w].rec] \/ "rename" \in Faults
        /\ UNCHANGED <<new, cur>>
  /\ req' = [req EXCEPT ![w] = WReturned("ok")]
  /\ UNCHANGED <<made, tmp, data, del, lst, history>>

\* os.Remove of the path locate returned.
DeleteRemove(w) ==
  LET i == req[w].id
      r == req[w].rec
  IN
  /\ req[w].step = "act"
  /\ req[w].op = "delete"
  /\ \/ /\ Found(w)
        /\ \/ req[w].sub = "new" /\ new' = Take(new, r, i) /\ cur' = cur
           \/ req[w].sub = "cur" /\ cur' = Take(cur, r, i) /\ new' = new
        /\ removed' = removed \cup {i}
        /\ wlive' = [v \in Requests |-> wlive[v] /\ req[v].id # i]
        /\ llive' = [l \in Listers |-> llive[l] \ {i}]
        /\ req' = [req EXCEPT ![w] = WReturned("ok")]
     \/ /\ ~Found(w) \/ "remove" \in Faults
        /\ req' = [req EXCEPT ![w] = WReturned("failed")]
        /\ UNCHANGED <<new, cur, removed, wlive, llive>>
  /\ UNCHANGED <<made, tmp, data, del, lst, acked, failed>>

-----------------------------------------------------------------------------
(* List.  A summary has the headers when the file could be opened and its  *)
(* header block parsed; Subject, Date and the spam flag all come from them.*)

LIdle  == {"idle", "done", "failed"}
LSteps == LIdle \cup {"next", "first", "second"}

Summary == [id : Ids, unread : BOOLEAN, headers : BOOLEAN]

\* todo: the recipients still to list; rec: the current one; ents: the entries
\* of its directory still to open; out: the summaries so far.
LFrame == [step : LSteps, todo : SUBSET Recipients, rec : Recipients \cup {None},
           ents : SUBSET Ids, out : SUBSET Summary]

LReturned(outcome, out) == [step |-> outcome, todo |-> {}, rec |-> None,
                            ents |-> {}, out |-> out]

\* Mutant: List reads cur/ first.
ListDirsSwapped == <<"cur", "new">>

\* The order in which List reads the directories of a recipient.
ListDirs == <<"new", "cur">>

\* os.ReadDir(root).
ListBegin(l) ==
  /\ lst[l].step \in LIdle
  /\ \/ lst' = [lst EXCEPT ![l] = [step |-> "next", todo |-> made, rec |-> None,
                                   ents |-> {}, out |-> {}]]
     \/ /\ "readdir" \in Faults
        /\ lst' = [lst EXCEPT ![l] = LReturned("failed", {})]
  /\ llive' = [llive EXCEPT ![l] = Live]
  /\ UNCHANGED <<files, del, req, acked, failed, removed, wlive>>

\* The next recipient r: os.ReadDir of its first directory.
ListFirst(l) ==
  /\ lst[l].step = "next"
  /\ \E r \in lst[l].todo : \E entries \in ReadDir(r, ListDirs[1]) :
       lst' = [lst EXCEPT ![l] = [lst[l] EXCEPT !.step = "first",
                                                !.rec = r,
                                                !.todo = @ \ {r},
                                                !.ents = entries]]
  /\ UNCHANGED <<files, del, req, history>>

ListDir(l) == IF lst[l].step = "first" THEN ListDirs[1] ELSE ListDirs[2]

\* Whether the headers of i could be read; os.Open may fail.
ReadHeaders(i, r, s) == {(i \in Sub(r, s)) /\ (i \notin Malformed)}
                          \cup {FALSE : f \in Faults \cap {"read"}}

SummaryOf(l, i, h) == [id |-> i, unread |-> ListDir(l) = "new", headers |-> h]

\* One entry of the directory being listed: open it, read the header block,
\* and append the summary whether or not that worked.
ListEntry(l) ==
  /\ lst[l].step \in {"first", "second"}
  /\ \E i \in lst[l].ents : \E h \in ReadHeaders(i, lst[l].rec, ListDir(l)) :
       lst' = [lst EXCEPT ![l] = [lst[l] EXCEPT !.ents = @ \ {i},
                                                !.out = @ \cup {SummaryOf(l, i, h)}]]
  /\ UNCHANGED <<files, del, req, history>>

\* The first directory is done: os.ReadDir of the second.
ListSecond(l) ==
  /\ lst[l].step = "first"
  /\ lst[l].ents = {}
  /\ \E entries \in ReadDir(lst[l].rec, ListDirs[2]) :
       lst' = [lst EXCEPT ![l] = [@ EXCEPT !.step = "second", !.ents = entries]]
  /\ UNCHANGED <<files, del, req, history>>

\* The second directory is done: on to the next recipient.
ListNext(l) ==
  /\ lst[l].step = "second"
  /\ lst[l].ents = {}
  /\ lst' = [lst EXCEPT ![l].step = "next"]
  /\ UNCHANGED <<files, del, req, history>>

\* No recipient left: sort and return.
ListEnd(l) ==
  /\ lst[l].step = "next"
  /\ lst[l].todo = {}
  /\ lst' = [lst EXCEPT ![l] = LReturned("done", lst[l].out)]
  /\ UNCHANGED <<files, del, req, history>>

-----------------------------------------------------------------------------
\* The process is killed and started again: main returns on a signal without
\* waiting for any goroutine.  The file system stays as it is.
Crash ==
  /\ del' = [d \in Deliverers |-> DReturned("idle")]
  /\ req' = [w \in Requests |-> WReturned("idle")]
  /\ lst' = [l \in Listers |-> LReturned("idle", {})]
  /\ UNCHANGED <<files, history>>

-----------------------------------------------------------------------------
Init ==
  /\ made = {}
  /\ tmp = [r \in Recipients |-> {}]
  /\ new = [r \in Recipients |-> {}]
  /\ cur = [r \in Recipients |-> {}]
  /\ data = [i \in Ids |-> "unused"]
  /\ del = [d \in Deliverers |-> DReturned("idle")]
  /\ req = [w \in Requests |-> WReturned("idle")]
  /\ lst = [l \in Listers |-> LReturned("idle", {})]
  /\ acked = {}
  /\ failed = {}
  /\ removed = {}
  /\ wlive = [w \in Requests |-> FALSE]
  /\ llive = [l \in Listers |-> {}]

Deliver(d) == \/ \E r \in Recipients : DeliverMkdir(d, r)
              \/ DeliverCreate(d)
              \/ DeliverWrite(d)
              \/ DeliverClose(d)
              \/ DeliverRename(d)
              \/ DeliverCleanup(d)

Request(w) == \/ \E op \in Ops, i \in Ids : RequestBegin(w, op, i)
              \/ LocateFirst(w)
              \/ LocateSecond(w)
              \/ LocateFail(w)
              \/ OpenRead(w)
              \/ OpenMark(w)
              \/ DeleteRemove(w)

List(l) == \/ ListBegin(l)
           \/ ListFirst(l)
           \/ ListEntry(l)
           \/ ListSecond(l)
           \/ ListNext(l)
           \/ ListEnd(l)

Next == \/ \E d \in Deliverers : Deliver(d)
        \/ \E w \in Requests : Request(w)
        \/ \E l \in Listers : List(l)
        \/ Crash

Spec == Init /\ [][Next]_vars

-----------------------------------------------------------------------------
(* Properties.                                                             *)

\* The types of the variables.
TypeOK ==
  /\ made \in SUBSET Recipients
  /\ tmp \in [Recipients -> SUBSET Ids]
  /\ new \in [Recipients -> SUBSET Ids]
  /\ cur \in [Recipients -> SUBSET Ids]
  /\ data \in [Ids -> Content]
  /\ del \in [Deliverers -> DFrame]
  /\ req \in [Requests -> WFrame]
  /\ lst \in [Listers -> LFrame]
  /\ acked \in SUBSET Ids
  /\ failed \in SUBSET Ids
  /\ removed \in SUBSET Ids
  /\ wlive \in [Requests -> BOOLEAN]
  /\ llive \in [Listers -> SUBSET Ids]

\* What Deliver returns is the truth, now and after any crash: a message it
\* acknowledged is in the store unless a Delete took it out, and a message it
\* reported an error for is never visible, so that the 451 reply the SMTP
\* server turns that error into cannot hide a stored copy.
DeliverOutcome ==
  /\ acked \subseteq Live \cup removed
  /\ failed \cap (Live \cup removed) = {}

\* "Deliver atomically stores msg": a file that a reader can see, in new/ or
\* cur/, holds the whole message.
StoredIsComplete == \A i \in Live : data[i] = "full"

\* A request for a message that stays in the store all along never gets the
\* ErrNotExist of locate, however often other requests move the message from
\* new/ to cur/ while locate looks through the directories, unless os.Stat fails.
LocateFindsLive ==
  "stat" \notin Faults =>
    \A w \in Requests : req[w].step = "notfound" => ~wlive[w]

\* What a List has shown of a message: its headers, unless they are malformed.
ShownBy(l, i) ==
  \E m \in lst[l].out : m.id = i /\ (m.headers \/ i \in Malformed)

\* A List that has returned shows every message that was in the store all
\* along, with its headers, although it reads new/ and cur/ one after the other
\* and opens the entries later still, while other requests move messages.  The
\* code skips what it cannot read, so the calls that read must not fail.
ListComplete ==
  Faults \cap {"read", "readdir"} = {} =>
    \A l \in Listers : lst[l].step = "done" =>
      \A i \in llive[l] : ShownBy(l, i)

\* The status of each message, as the interface of the store shows it.
BoxOf(i) == IF \E r \in Recipients : i \in new[r] THEN "unread"
            ELSE IF \E r \in Recipients : i \in cur[r] THEN "read"
            ELSE IF i \in removed THEN "deleted"
            ELSE "absent"

MB == INSTANCE Mailbox WITH box <- [i \in Ids |-> BoxOf(i)]

\* Every step of every interleaving changes the store the way one atomic
\* operation of Mailbox does: no message is seen in two places, a read message
\* never turns unread, and a deleted one never comes back.
RefinesMailbox == MB!Spec
=============================================================================
