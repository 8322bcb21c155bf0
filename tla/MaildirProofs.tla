--------------------------- MODULE MaildirProofs ---------------------------
(***************************************************************************)
(* Proofs about Maildir, for any number of messages, recipients and        *)
(* goroutines, and for any set of failing system calls.                    *)
(***************************************************************************)
EXTENDS Maildir, TLAPS

-----------------------------------------------------------------------------
(* The inductive invariant.                                                *)

Writing == {"write", "close", "rename", "cleanup"}

\* A message sits in one directory only, and its recipient has a directory.
OnePlace ==
  /\ \A r \in Recipients : new[r] \cap cur[r] = {}
  /\ \A r, s \in Recipients : r # s => Stored(r) \cap Stored(s) = {}
  /\ \A r \in Recipients : Stored(r) # {} => r \in made

\* A message that was deleted is gone for good.
NotBoth == Live \cap removed = {}

\* A file name that was never used, or that a running Deliver uses, is neither
\* in the store nor in the history, and no two calls of Deliver share one.
Settled == Live \cup removed \cup acked \cup failed

FreshNames ==
  /\ \A i \in Ids : data[i] = "unused" => i \notin Settled
  /\ \A d \in Deliverers : del[d].step \in Writing =>
       /\ del[d].id \in Ids
       /\ data[del[d].id] # "unused"
       /\ del[d].id \notin Settled
  /\ \A d, e \in Deliverers :
       d # e /\ del[d].step \in Writing /\ del[e].step \in Writing
         => del[d].id # del[e].id
  /\ \A d \in Deliverers : del[d].step \in Writing \cup {"create"} =>
       del[d].rec \in made

StoreInv == OnePlace /\ NotBoth /\ DeliverOutcome /\ FreshNames

\* When no write fails, a file is whole from the step after the write on.
Whole ==
  /\ StoredIsComplete
  /\ \A d \in Deliverers : del[d].step \in {"close", "rename"} => data[del[d].id] = "full"

\* Where request w is going to find its message, if nobody removed it.
Seeking(w) ==
  /\ wlive[w] /\ req[w].step \in {"locate", "second"} =>
       \E r \in Recipients :
         /\ req[w].id \in Stored(r)
         /\ \/ r \in req[w].todo
            \/ req[w].step = "second" /\ r = req[w].rec /\ req[w].id \in cur[r]
  /\ req[w].step = "notfound" => ~wlive[w]

\* Where the List of l is still going to see message i.
ToBeShown(l, i) ==
  \E r \in Recipients :
    /\ i \in Stored(r)
    /\ \/ r \in lst[l].todo
       \/ /\ lst[l].step = "first"
          /\ r = lst[l].rec
          /\ i \in cur[r] \/ i \in lst[l].ents
       \/ /\ lst[l].step = "second"
          /\ r = lst[l].rec
          /\ i \in cur[r] /\ i \in lst[l].ents

Showing(l) ==
  /\ lst[l].step \notin LIdle => \A i \in llive[l] : ShownBy(l, i) \/ ToBeShown(l, i)
  /\ lst[l].step = "done" => \A i \in llive[l] : ShownBy(l, i)

IInv == /\ TypeOK
        /\ StoreInv
        /\ "write" \notin Faults => Whole
        /\ "stat" \notin Faults => \A w \in Requests : Seeking(w)
        /\ Faults \cap {"read", "readdir"} = {} => \A l \in Listers : Showing(l)

\* The locals of a goroutine are assigned when it comes to use them.  TypeOK
\* alone is not inductive: a message enters a directory by way of the locals.
DelFrame == {f \in DFrame : /\ f.step \in Writing => f.id \in Ids
                            /\ f.step \in Writing \cup {"create"} => f.rec \in Recipients}

ReqFrame == {f \in WFrame : /\ f.step \notin WIdle => f.id \in Ids
                            /\ f.step \in {"second", "act", "mark"} =>
                                 f.rec \in Recipients}

LstFrame == {f \in LFrame : f.step \in {"first", "second"} => f.rec \in Recipients}

DelFrames == del \in [Deliverers -> DelFrame]
ReqFrames == req \in [Requests -> ReqFrame]
LstFrames == lst \in [Listers -> LstFrame]

\* The files and the history.
FilesOK ==
  /\ made \in SUBSET Recipients
  /\ tmp \in [Recipients -> SUBSET Ids]
  /\ new \in [Recipients -> SUBSET Ids]
  /\ cur \in [Recipients -> SUBSET Ids]
  /\ data \in [Ids -> Content]
  /\ acked \in SUBSET Ids
  /\ failed \in SUBSET Ids
  /\ removed \in SUBSET Ids
  /\ wlive \in [Requests -> BOOLEAN]
  /\ llive \in [Listers -> SUBSET Ids]

Types == FilesOK /\ DelFrames /\ ReqFrames /\ LstFrames

\* Types strengthens TypeOK.
LEMMA TypesTypeOK == Types => TypeOK
BY DEF Types, TypeOK, FilesOK, DelFrames, ReqFrames, LstFrames, DelFrame, ReqFrame,
       LstFrame

\* The frame of a call that has not begun or has returned is well-formed.
LEMMA ReturnedFrames ==
  /\ \A o \in DIdle : DReturned(o) \in DelFrame
  /\ \A o \in WIdle : WReturned(o) \in ReqFrame
  /\ \A o \in LIdle, s \in SUBSET Summary : LReturned(o, s) \in LstFrame
<1>1. \A o \in DIdle : DReturned(o) \in DelFrame
  BY DEF DIdle, DSteps, DReturned, DelFrame, DFrame, Writing
<1>2. \A o \in WIdle : WReturned(o) \in ReqFrame
  BY DEF WIdle, WSteps, WReturned, ReqFrame, WFrame, Ops
<1>3. \A o \in LIdle, s \in SUBSET Summary : LReturned(o, s) \in LstFrame
  BY DEF LIdle, LSteps, LReturned, LstFrame, LFrame
<1> QED BY <1>1, <1>2, <1>3

\* The types hold of the initial state.
LEMMA TypesInit == Init => Types
<1> SUFFICES ASSUME Init PROVE Types
  OBVIOUS
<1>1. DelFrames
  BY ReturnedFrames DEF Init, DelFrames, DIdle
<1>2. ReqFrames
  BY ReturnedFrames DEF Init, ReqFrames, WIdle
<1>3. LstFrames
  BY ReturnedFrames DEF Init, LstFrames, LIdle
<1>4. FilesOK
  BY DEF Init, FilesOK, Content
<1> QED BY <1>1, <1>2, <1>3, <1>4 DEF Types

\* A step of Deliver preserves the types.
LEMMA TypesDeliver ==
  ASSUME Types, NEW d \in Deliverers, Deliver(d)
  PROVE  Types'
<1> USE DEF Types
<1>0. del[d] \in DelFrame
  BY DEF DelFrames
<1>1. ASSUME NEW r \in Recipients, DeliverMkdir(d, r) PROVE Types'
  <2>1. [step |-> "create", rec |-> r, id |-> None] \in DelFrame
    BY DEF DelFrame, DFrame, DSteps, Writing
  <2>2. DelFrames'
    BY <1>1, <2>1, ReturnedFrames DEF DeliverMkdir, DelFrames, DIdle
  <2>3. made' \in SUBSET Recipients
    BY <1>1 DEF DeliverMkdir, FilesOK
  <2> QED BY <1>1, <2>2, <2>3 DEF DeliverMkdir, FilesOK, ReqFrames, LstFrames, history
<1>2. CASE DeliverCreate(d)
  <2>1. del[d].rec \in Recipients
    BY <1>0, <1>2 DEF DeliverCreate, DelFrame
  <2>2. CASE \E i \in Ids :
                /\ data' = [data EXCEPT ![i] = "partial"]
                /\ tmp' = Put(tmp, del[d].rec, i)
                /\ del' = [del EXCEPT ![d] = [@ EXCEPT !.step = "write", !.id = i]]
    <3>1. PICK i \in Ids :
                /\ data' = [data EXCEPT ![i] = "partial"]
                /\ tmp' = Put(tmp, del[d].rec, i)
                /\ del' = [del EXCEPT ![d] = [@ EXCEPT !.step = "write", !.id = i]]
      BY <2>2
    <3>2. [del[d] EXCEPT !.step = "write", !.id = i] \in DelFrame
      BY <1>0, <2>1 DEF DelFrame, DFrame, DSteps, Writing
    <3>3. DelFrames'
      BY <3>1, <3>2 DEF DelFrames
    <3>4. tmp' \in [Recipients -> SUBSET Ids] /\ data' \in [Ids -> Content]
      BY <3>1 DEF FilesOK, Put, Content
    <3> QED BY <1>2, <3>3, <3>4 DEF DeliverCreate, FilesOK, ReqFrames, LstFrames, history
  <2>3. CASE del' = [del EXCEPT ![d] = DReturned("failed")] /\ UNCHANGED <<data, tmp>>
    <3>1. DelFrames'
      BY <2>3, ReturnedFrames DEF DelFrames, DIdle
    <3> QED BY <1>2, <2>3, <3>1 DEF DeliverCreate, FilesOK, ReqFrames, LstFrames, history
  <2> QED BY <1>2, <2>2, <2>3 DEF DeliverCreate
<1>3. CASE DeliverWrite(d)
  <2>1. [del[d] EXCEPT !.step = "close"] \in DelFrame
    BY <1>0, <1>3 DEF DeliverWrite, DelFrame, DFrame, DSteps, Writing
  <2>2. DelFrames'
    BY <1>3, <2>1 DEF DeliverWrite, DelFrames
  <2>3. data' \in [Ids -> Content]
    BY <1>3 DEF DeliverWrite, FilesOK, Content
  <2> QED BY <1>3, <2>2, <2>3 DEF DeliverWrite, FilesOK, ReqFrames, LstFrames, history
<1>4. CASE DeliverClose(d)
  <2>1. \A s \in {"rename", "cleanup"} : [del[d] EXCEPT !.step = s] \in DelFrame
    BY <1>0, <1>4 DEF DeliverClose, DelFrame, DFrame, DSteps, Writing
  <2>2. DelFrames'
    BY <1>4, <2>1 DEF DeliverClose, DelFrames
  <2> QED BY <1>4, <2>2 DEF DeliverClose, FilesOK, ReqFrames, LstFrames, files, history
<1>5. CASE DeliverRename(d)
  <2>1. [del[d] EXCEPT !.step = "cleanup"] \in DelFrame
    BY <1>0, <1>5 DEF DeliverRename, DelFrame, DFrame, DSteps, Writing
  <2>2. DelFrames'
    BY <1>5, <2>1, ReturnedFrames DEF DeliverRename, DelFrames, DIdle
  <2>3. del[d].id \in Ids
    BY <1>0, <1>5 DEF DeliverRename, DelFrame, Writing
  <2>4. /\ tmp' \in [Recipients -> SUBSET Ids] /\ new' \in [Recipients -> SUBSET Ids]
        /\ acked' \in SUBSET Ids
    BY <1>5, <2>3 DEF DeliverRename, FilesOK, Put, Take
  <2> QED BY <1>5, <2>2, <2>4 DEF DeliverRename, FilesOK, ReqFrames, LstFrames
<1>6. CASE DeliverCleanup(d)
  <2>1. DelFrames'
    BY <1>6, ReturnedFrames DEF DeliverCleanup, DelFrames, DIdle
  <2>2. del[d].id \in Ids
    BY <1>0, <1>6 DEF DeliverCleanup, DelFrame, Writing
  <2>3. tmp' \in [Recipients -> SUBSET Ids] /\ failed' \in SUBSET Ids
    BY <1>6, <2>2 DEF DeliverCleanup, FilesOK, Take
  <2> QED BY <1>6, <2>1, <2>3 DEF DeliverCleanup, FilesOK, ReqFrames, LstFrames
<1> QED BY <1>1, <1>2, <1>3, <1>4, <1>5, <1>6 DEF Deliver

\* A step of Open, Delete or Reader preserves the types.
LEMMA TypesRequest ==
  ASSUME Types, NEW w \in Requests, Request(w)
  PROVE  Types'
<1> USE DEF Types
<1>0. req[w] \in ReqFrame
  BY DEF ReqFrames
<1>1. ASSUME NEW op \in Ops, NEW i \in Ids, RequestBegin(w, op, i) PROVE Types'
  <2>1. [step |-> "locate", op |-> op, id |-> i, todo |-> made, rec |-> None,
         sub |-> "new"] \in ReqFrame
    BY DEF FilesOK, ReqFrame, WFrame, WSteps
  <2>2. ReqFrames'
    BY <1>1, <2>1, ReturnedFrames DEF RequestBegin, ReqFrames, WIdle
  <2>3. wlive' \in [Requests -> BOOLEAN]
    BY <1>1 DEF RequestBegin, FilesOK
  <2> QED BY <1>1, <2>2, <2>3 DEF RequestBegin, FilesOK, DelFrames, LstFrames, files
<1>2. CASE LocateFirst(w)
  <2>1. PICK r \in req[w].todo, s \in {"act", "second"} :
          req' = [req EXCEPT ![w] = [req[w] EXCEPT !.rec = r, !.sub = LocateDirs[1],
                                                   !.todo = @ \ {r}, !.step = s]]
    BY <1>2 DEF LocateFirst
  <2>2. [req[w] EXCEPT !.rec = r, !.sub = LocateDirs[1], !.todo = @ \ {r}, !.step = s]
          \in ReqFrame
    BY <1>0, <1>2 DEF LocateFirst, ReqFrame, WFrame, WSteps, WIdle, LocateDirs
  <2>3. ReqFrames'
    BY <2>1, <2>2 DEF ReqFrames
  <2> QED BY <1>2, <2>3 DEF LocateFirst, FilesOK, DelFrames, LstFrames, files, history
<1>3. CASE LocateSecond(w)
  <2>1. PICK s \in {"act", "locate"} :
          req' = [req EXCEPT ![w] = [@ EXCEPT !.sub = LocateDirs[2], !.step = s]]
    BY <1>3 DEF LocateSecond
  <2>2. [req[w] EXCEPT !.sub = LocateDirs[2], !.step = s] \in ReqFrame
    BY <1>0, <1>3 DEF LocateSecond, ReqFrame, WFrame, WSteps, WIdle, LocateDirs
  <2>3. ReqFrames'
    BY <2>1, <2>2 DEF ReqFrames
  <2> QED BY <1>3, <2>3 DEF LocateSecond, FilesOK, DelFrames, LstFrames, files, history
<1>4. CASE LocateFail(w)
  <2>1. ReqFrames'
    BY <1>4, ReturnedFrames DEF LocateFail, ReqFrames, WIdle
  <2> QED BY <1>4, <2>1 DEF LocateFail, FilesOK, DelFrames, LstFrames, files, history
<1>5. CASE OpenRead(w)
  <2>1. [req[w] EXCEPT !.step = "mark"] \in ReqFrame
    BY <1>0, <1>5 DEF OpenRead, ReqFrame, WFrame, WSteps, WIdle
  <2>2. ReqFrames'
    BY <1>5, <2>1, ReturnedFrames DEF OpenRead, ReqFrames, WIdle
  <2> QED BY <1>5, <2>2 DEF OpenRead, FilesOK, DelFrames, LstFrames, files, history
<1>6. CASE OpenMark(w)
  <2>1. ReqFrames'
    BY <1>6, ReturnedFrames DEF OpenMark, ReqFrames, WIdle
  <2>2. req[w].id \in Ids
    BY <1>0, <1>6 DEF OpenMark, ReqFrame, WIdle
  <2>3. new' \in [Recipients -> SUBSET Ids] /\ cur' \in [Recipients -> SUBSET Ids]
    BY <1>6, <2>2 DEF OpenMark, FilesOK, Put, Take
  <2> QED BY <1>6, <2>1, <2>3 DEF OpenMark, FilesOK, DelFrames, LstFrames, history
<1>7. CASE DeleteRemove(w)
  <2>1. ReqFrames'
    BY <1>7, ReturnedFrames DEF DeleteRemove, ReqFrames, WIdle
  <2>2. req[w].id \in Ids
    BY <1>0, <1>7 DEF DeleteRemove, ReqFrame, WIdle
  <2>3. /\ new' \in [Recipients -> SUBSET Ids] /\ cur' \in [Recipients -> SUBSET Ids]
        /\ removed' \in SUBSET Ids
        /\ llive' \in [Listers -> SUBSET Ids]
    BY <1>7, <2>2 DEF DeleteRemove, FilesOK, Take
  <2>4. wlive' \in [Requests -> BOOLEAN]
    BY <1>7 DEF DeleteRemove, FilesOK
  <2> QED BY <1>7, <2>1, <2>3, <2>4 DEF DeleteRemove, FilesOK, DelFrames, LstFrames
<1> QED BY <1>1, <1>2, <1>3, <1>4, <1>5, <1>6, <1>7 DEF Request

\* A step of List preserves the types.
LEMMA TypesList ==
  ASSUME Types, NEW l \in Listers, List(l)
  PROVE  Types'
<1> USE DEF Types
<1>0. lst[l] \in LstFrame
  BY DEF LstFrames
<1>1. CASE ListBegin(l)
  <2>1. [step |-> "next", todo |-> made, rec |-> None, ents |-> {}, out |-> {}] \in LstFrame
    BY DEF FilesOK, LstFrame, LFrame, LSteps
  <2>2. LstFrames'
    BY <1>1, <2>1, ReturnedFrames DEF ListBegin, LstFrames, LIdle
  <2>3. llive' \in [Listers -> SUBSET Ids]
    BY <1>1 DEF ListBegin, FilesOK, Live
  <2> QED BY <1>1, <2>2, <2>3 DEF ListBegin, FilesOK, DelFrames, ReqFrames, files
<1>2. CASE ListFirst(l)
  <2>1. PICK r \in lst[l].todo : \E entries \in ReadDir(r, ListDirs[1]) :
          lst' = [lst EXCEPT ![l] = [lst[l] EXCEPT !.step = "first", !.rec = r,
                                                   !.todo = @ \ {r}, !.ents = entries]]
    BY <1>2 DEF ListFirst
  <2>2. PICK entries \in ReadDir(r, ListDirs[1]) :
          lst' = [lst EXCEPT ![l] = [lst[l] EXCEPT !.step = "first", !.rec = r,
                                                   !.todo = @ \ {r}, !.ents = entries]]
    BY <2>1
  <2>3. r \in Recipients
    BY <1>0 DEF LstFrame, LFrame
  <2>4. entries \in SUBSET Ids
    BY <2>3 DEF ReadDir, Sub, ListDirs, FilesOK
  <2>5. [lst[l] EXCEPT !.step = "first", !.rec = r, !.todo = @ \ {r}, !.ents = entries]
          \in LstFrame
    BY <1>0, <2>3, <2>4 DEF LstFrame, LFrame, LSteps
  <2>6. LstFrames'
    BY <2>2, <2>5 DEF LstFrames
  <2> QED BY <1>2, <2>6 DEF ListFirst, FilesOK, DelFrames, ReqFrames, files, history
<1>3. CASE ListEntry(l)
  <2>1. PICK i \in lst[l].ents : \E h \in BOOLEAN :
          lst' = [lst EXCEPT ![l] = [lst[l] EXCEPT !.ents = @ \ {i},
                                                   !.out = @ \cup {SummaryOf(l, i, h)}]]
    BY <1>3 DEF ListEntry, ReadHeaders
  <2>2. PICK h \in BOOLEAN :
          lst' = [lst EXCEPT ![l] = [lst[l] EXCEPT !.ents = @ \ {i},
                                                   !.out = @ \cup {SummaryOf(l, i, h)}]]
    BY <2>1
  <2>3. SummaryOf(l, i, h) \in Summary
    BY <1>0 DEF SummaryOf, Summary, LstFrame, LFrame
  <2>4. [lst[l] EXCEPT !.ents = @ \ {i}, !.out = @ \cup {SummaryOf(l, i, h)}] \in LstFrame
    BY <1>0, <2>3 DEF LstFrame, LFrame, LSteps
  <2>5. LstFrames'
    BY <2>2, <2>4 DEF LstFrames
  <2> QED BY <1>3, <2>5 DEF ListEntry, FilesOK, DelFrames, ReqFrames, files, history
<1>4. CASE ListSecond(l)
  <2>1. PICK entries \in ReadDir(lst[l].rec, ListDirs[2]) :
          lst' = [lst EXCEPT ![l] = [@ EXCEPT !.step = "second", !.ents = entries]]
    BY <1>4 DEF ListSecond
  <2>2. lst[l].rec \in Recipients
    BY <1>0, <1>4 DEF ListSecond, LstFrame
  <2>3. entries \in SUBSET Ids
    BY <2>2 DEF ReadDir, Sub, ListDirs, FilesOK
  <2>4. [lst[l] EXCEPT !.step = "second", !.ents = entries] \in LstFrame
    BY <1>0, <2>2, <2>3 DEF LstFrame, LFrame, LSteps
  <2>5. LstFrames'
    BY <2>1, <2>4 DEF LstFrames
  <2> QED BY <1>4, <2>5 DEF ListSecond, FilesOK, DelFrames, ReqFrames, files, history
<1>5. CASE ListNext(l)
  <2>1. [lst[l] EXCEPT !.step = "next"] \in LstFrame
    BY <1>0 DEF LstFrame, LFrame, LSteps
  <2>2. LstFrames'
    BY <1>5, <2>1 DEF ListNext, LstFrames
  <2> QED BY <1>5, <2>2 DEF ListNext, FilesOK, DelFrames, ReqFrames, files, history
<1>6. CASE ListEnd(l)
  <2>1. lst[l].out \in SUBSET Summary
    BY <1>0 DEF LstFrame, LFrame
  <2>2. LstFrames'
    BY <1>6, <2>1, ReturnedFrames DEF ListEnd, LstFrames, LIdle
  <2> QED BY <1>6, <2>2 DEF ListEnd, FilesOK, DelFrames, ReqFrames, files, history
<1> QED BY <1>1, <1>2, <1>3, <1>4, <1>5, <1>6 DEF List

\* Every step preserves the types.
LEMMA TypesStep == Types /\ [Next]_vars => Types'
<1> SUFFICES ASSUME Types, [Next]_vars PROVE Types'
  OBVIOUS
<1>1. CASE Crash
  <2>1. DelFrames' /\ ReqFrames' /\ LstFrames'
    BY <1>1, ReturnedFrames DEF Crash, DelFrames, ReqFrames, LstFrames, DIdle, WIdle, LIdle
  <2> QED BY <1>1, <2>1 DEF Crash, Types, FilesOK, files, history
<1>2. CASE UNCHANGED vars
  BY <1>2 DEF vars, files, history, Types, FilesOK, DelFrames, ReqFrames, LstFrames
<1> QED BY <1>1, <1>2, TypesDeliver, TypesRequest, TypesList DEF Next

-----------------------------------------------------------------------------
(* Names and places of messages.                                           *)

\* The part of the state that StoreInv is about.
storeVars == <<made, new, cur, data, del, acked, failed, removed>>

\* The store is empty in the initial state.
LEMMA StoreInit == Init => StoreInv
BY DEF Init, StoreInv, NotBoth, OnePlace, DeliverOutcome, FreshNames, Settled, Live,
       Stored, DReturned, Writing

\* Nothing else matters to StoreInv.
LEMMA StoreUnchanged == StoreInv /\ UNCHANGED storeVars => StoreInv'
BY DEF storeVars, StoreInv, NotBoth, OnePlace, DeliverOutcome, FreshNames, Settled,
       Live, Stored

\* A step of Deliver that leaves the files in new/ and cur/ alone.
LEMMA StoreDeliverQuiet ==
  ASSUME Types, StoreInv, NEW d \in Deliverers,
         UNCHANGED <<new, cur, removed>>,
         made \subseteq made',
         Live' = Live,
         FreshNames',
         DeliverOutcome'
  PROVE  StoreInv'
BY DEF StoreInv, NotBoth, OnePlace, Stored

\* A step of Deliver preserves StoreInv.
LEMMA StoreDeliver ==
  ASSUME Types, StoreInv, NEW d \in Deliverers, Deliver(d)
  PROVE  StoreInv'
<1>0. del[d] \in DelFrame /\ FilesOK /\ DelFrames
  BY DEF Types, DelFrames
<1>1. ASSUME NEW r \in Recipients, DeliverMkdir(d, r) PROVE StoreInv'
  <2>1. UNCHANGED <<new, cur, data, acked, failed, removed>> /\ made \subseteq made'
    BY <1>1 DEF DeliverMkdir, history
  <2>2. Live' = Live /\ Settled' = Settled
    BY <2>1 DEF Live, Stored, Settled
  <2>3. \A e \in Deliverers : del'[e].step \in Writing =>
           del[e].step \in Writing /\ del'[e] = del[e]
    BY <1>0, <1>1 DEF DeliverMkdir, DelFrames, DReturned, Writing
  <2>4. \A e \in Deliverers : del'[e].step \in Writing \cup {"create"} =>
           del'[e].rec \in made'
    BY <1>0, <1>1 DEF DeliverMkdir, DelFrames, DReturned, Writing, StoreInv, FreshNames
  <2>5. FreshNames'
    BY <2>1, <2>2, <2>3, <2>4 DEF FreshNames, StoreInv
  <2> QED BY <2>1, <2>2, <2>5, StoreDeliverQuiet DEF StoreInv, DeliverOutcome
<1>2. CASE DeliverCreate(d)
  <2>1. UNCHANGED <<made, new, cur, acked, failed, removed>>
    BY <1>2 DEF DeliverCreate, history
  <2>2. Live' = Live /\ Settled' = Settled
    BY <2>1 DEF Live, Stored, Settled
  <2>3. CASE UNCHANGED data /\ del' = [del EXCEPT ![d] = DReturned("failed")]
    <3>1. \A e \in Deliverers : del'[e].step \in Writing \cup {"create"} => del'[e] = del[e]
      BY <1>0, <2>3 DEF DelFrames, DReturned, Writing
    <3>2. FreshNames'
      BY <2>1, <2>2, <2>3, <3>1 DEF FreshNames, StoreInv
    <3> QED BY <2>1, <2>2, <3>2, StoreDeliverQuiet DEF StoreInv, DeliverOutcome
  <2>4. ASSUME NEW i \in Ids, data[i] = "unused",
               data' = [data EXCEPT ![i] = "partial"],
               del' = [del EXCEPT ![d] = [@ EXCEPT !.step = "write", !.id = i]]
        PROVE  StoreInv'
    <3>1. del'[d].step = "write" /\ del'[d].id = i /\ del'[d].rec = del[d].rec
      BY <1>0, <2>4 DEF DelFrames, DelFrame, DFrame
    <3>2. \A e \in Deliverers \ {d} : del'[e] = del[e]
      BY <1>0, <2>4 DEF DelFrames
    <3>3. \A j \in Ids : data'[j] = IF j = i THEN "partial" ELSE data[j]
      BY <1>0, <2>4 DEF FilesOK
    <3>4. FreshNames'
      <4>1. del[d].step = "create" /\ i \notin Settled
        BY <1>2, <2>4 DEF DeliverCreate, FreshNames, StoreInv
      <4>2. \A j \in Ids : data'[j] = "unused" => j \notin Settled'
        BY <2>2, <3>3 DEF FreshNames, StoreInv
      <4>3. \A e \in Deliverers \ {d} : del[e].step \in Writing => del[e].id # i
        BY <2>4 DEF FreshNames, StoreInv
      <4>4. \A e \in Deliverers : del'[e].step \in Writing =>
              del'[e].id \in Ids /\ data'[del'[e].id] # "unused" /\ del'[e].id \notin Settled'
        BY <2>2, <3>1, <3>2, <3>3, <4>1 DEF FreshNames, StoreInv
      <4>5. \A e, f \in Deliverers :
              e # f /\ del'[e].step \in Writing /\ del'[f].step \in Writing
                => del'[e].id # del'[f].id
        BY <3>1, <3>2, <4>3 DEF FreshNames, StoreInv
      <4>6. \A e \in Deliverers : del'[e].step \in Writing \cup {"create"} =>
              del'[e].rec \in made'
        BY <2>1, <3>1, <3>2, <4>1 DEF FreshNames, StoreInv
      <4> QED BY <4>2, <4>4, <4>5, <4>6 DEF FreshNames
    <3> QED BY <2>1, <2>2, <3>4, StoreDeliverQuiet DEF StoreInv, DeliverOutcome
  <2> QED BY <1>2, <2>3, <2>4 DEF DeliverCreate
<1>3. CASE DeliverWrite(d) \/ DeliverClose(d)
  <2>1. UNCHANGED <<made, new, cur, acked, failed, removed>>
    BY <1>3 DEF DeliverWrite, DeliverClose, history, files
  <2>2. Live' = Live /\ Settled' = Settled
    BY <2>1 DEF Live, Stored, Settled
  <2>3. \A e \in Deliverers : /\ del'[e].step \in Writing <=> del[e].step \in Writing
                              /\ del'[e].step = "create" <=> del[e].step = "create"
                              /\ del'[e].id = del[e].id
                              /\ del'[e].rec = del[e].rec
    BY <1>0, <1>3 DEF DeliverWrite, DeliverClose, DelFrames, DelFrame, DFrame, Writing
  <2>4. \A j \in Ids : /\ data'[j] = "unused" => data[j] = "unused"
                       /\ data[j] # "unused" => data'[j] # "unused"
    BY <1>0, <1>3 DEF DeliverWrite, DeliverClose, FilesOK, files
  <2>5. FreshNames'
    BY <2>1, <2>2, <2>3, <2>4 DEF FreshNames, StoreInv
  <2> QED BY <2>1, <2>2, <2>5, StoreDeliverQuiet DEF StoreInv, DeliverOutcome
<1>4. CASE DeliverRename(d)
  <2> DEFINE i == del[d].id
             r == del[d].rec
  <2>1. i \in Ids /\ r \in Recipients /\ r \in made /\ i \notin Settled /\ data[i] # "unused"
    BY <1>0, <1>4 DEF DeliverRename, DelFrame, StoreInv, FreshNames, Writing
  <2>2. CASE /\ UNCHANGED <<new, acked>>
             /\ del' = [del EXCEPT ![d].step = "cleanup"]
    <3>1. UNCHANGED <<made, new, cur, data, acked, failed, removed>>
      BY <1>4, <2>2 DEF DeliverRename
    <3>2. Live' = Live /\ Settled' = Settled
      BY <3>1 DEF Live, Stored, Settled
    <3>3. \A e \in Deliverers : /\ del'[e].step \in Writing <=> del[e].step \in Writing
                                /\ del'[e].step = "create" <=> del[e].step = "create"
                                /\ del'[e].id = del[e].id
                                /\ del'[e].rec = del[e].rec
      BY <1>0, <1>4, <2>2 DEF DeliverRename, DelFrames, DelFrame, DFrame, Writing
    <3>4. FreshNames'
      BY <3>1, <3>2, <3>3 DEF FreshNames, StoreInv
    <3> QED BY <3>1, <3>2, <3>4, StoreDeliverQuiet DEF StoreInv, DeliverOutcome
  <2>3. CASE /\ new' = Put(new, r, i)
             /\ acked' = acked \cup {i}
             /\ del' = [del EXCEPT ![d] = DReturned("ok")]
    <3>1. UNCHANGED <<made, cur, data, failed, removed>>
      BY <1>4, <2>3 DEF DeliverRename
    <3>2. \A s \in Recipients : new'[s] = IF s = r THEN new[s] \cup {i} ELSE new[s]
      BY <1>0, <2>3 DEF Put, FilesOK
    <3>3. Live' = Live \cup {i}
      BY <2>1, <3>1, <3>2 DEF Live, Stored
    <3>4. Settled' = Settled \cup {i}
      BY <2>3, <3>1, <3>3 DEF Settled
    <3>5. OnePlace'
      <4>1. \A s \in Recipients : i \notin new[s] /\ i \notin cur[s]
        BY <2>1 DEF Settled, Live, Stored
      <4>2. \A s \in Recipients : new'[s] \cap cur'[s] = {}
        BY <3>1, <3>2, <4>1 DEF OnePlace, StoreInv
      <4>3. \A s \in Recipients :
              Stored(s)' = IF s = r THEN Stored(s) \cup {i} ELSE Stored(s)
        BY <3>1, <3>2 DEF Stored
      <4>4. \A s, t \in Recipients : s # t => Stored(s)' \cap Stored(t)' = {}
        BY <4>1, <4>3 DEF OnePlace, StoreInv, Stored
      <4>5. \A s \in Recipients : Stored(s)' # {} => s \in made'
        BY <2>1, <3>1, <4>3 DEF OnePlace, StoreInv
      <4> QED BY <4>2, <4>4, <4>5 DEF OnePlace
    <3>6. i \notin Live /\ i \notin removed /\ i \notin acked /\ i \notin failed
      BY <2>1 DEF Settled
    <3>7. NotBoth'
      BY <3>1, <3>3, <3>6 DEF NotBoth, StoreInv
    <3>8. DeliverOutcome'
      BY <2>3, <3>1, <3>3, <3>6 DEF DeliverOutcome, StoreInv
    <3>9. \A e \in Deliverers : del'[e].step \in Writing \cup {"create"} =>
            e # d /\ del'[e] = del[e]
      BY <1>0, <2>3 DEF DelFrames, DReturned, Writing
    <3>10. FreshNames'
      <4>1. \A j \in Ids : data[j] = "unused" => j # i
        BY <2>1
      <4>2. del[d].step \in Writing
        BY <1>4 DEF DeliverRename, Writing
      <4>3. \A e \in Deliverers : del'[e].step \in Writing => del[e].id # i
        BY <3>9, <4>2 DEF FreshNames, StoreInv
      <4> QED BY <3>1, <3>4, <3>9, <4>1, <4>3 DEF FreshNames, StoreInv
    <3> QED BY <3>5, <3>7, <3>8, <3>10 DEF StoreInv
  <2> QED BY <1>4, <2>2, <2>3 DEF DeliverRename
<1>5. CASE DeliverCleanup(d)
  <2> DEFINE i == del[d].id
  <2>1. i \in Ids /\ i \notin Settled /\ data[i] # "unused" /\ del[d].step \in Writing
    BY <1>0, <1>5 DEF DeliverCleanup, DelFrame, StoreInv, FreshNames, Writing
  <2>2. /\ UNCHANGED <<made, new, cur, data, acked, removed>>
        /\ failed' = failed \cup {i}
        /\ del' = [del EXCEPT ![d] = DReturned("failed")]
    BY <1>5 DEF DeliverCleanup
  <2>3. Live' = Live
    BY <2>2 DEF Live, Stored
  <2>4. Settled' = Settled \cup {i}
    BY <2>2, <2>3 DEF Settled
  <2>5. DeliverOutcome'
    BY <2>1, <2>2, <2>3 DEF DeliverOutcome, StoreInv, Settled
  <2>6. \A e \in Deliverers : del'[e].step \in Writing \cup {"create"} =>
          e # d /\ del'[e] = del[e]
    BY <1>0, <2>2 DEF DelFrames, DReturned, Writing
  <2>7. FreshNames'
    <3>1. \A e \in Deliverers : del'[e].step \in Writing => del[e].id # i
      BY <2>1, <2>6 DEF FreshNames, StoreInv
    <3> QED BY <2>1, <2>2, <2>4, <2>6, <3>1 DEF FreshNames, StoreInv
  <2> QED BY <2>2, <2>3, <2>5, <2>7, StoreDeliverQuiet
<1> QED BY <1>1, <1>2, <1>3, <1>4, <1>5 DEF Deliver

\* Marking a message read keeps every message with its recipient.
LEMMA MarkEffect ==
  ASSUME Types, NEW w \in Requests, OpenMark(w)
  PROVE  /\ \A s \in Recipients : /\ Stored(s)' = Stored(s)
                                  /\ cur[s] \subseteq cur'[s]
         /\ UNCHANGED <<made, data, del, history>>
         /\ OnePlace => OnePlace'
<1> DEFINE i == req[w].id
           r == req[w].rec
<1>1. i \in Ids /\ r \in Recipients /\ FilesOK
  BY DEF OpenMark, Types, ReqFrames, ReqFrame, WIdle
<1>2. CASE UNCHANGED <<new, cur>>
  BY <1>2 DEF OpenMark, Stored, history, OnePlace
<1>3. CASE i \in new[r] /\ new' = Take(new, r, i) /\ cur' = Put(cur, r, i)
  <2>1. \A s \in Recipients : /\ new'[s] = IF s = r THEN new[s] \ {i} ELSE new[s]
                              /\ cur'[s] = IF s = r THEN cur[s] \cup {i} ELSE cur[s]
    BY <1>1, <1>3 DEF Take, Put, FilesOK
  <2>2. \A s \in Recipients : Stored(s)' = Stored(s) /\ cur[s] \subseteq cur'[s]
    BY <1>3, <2>1 DEF Stored
  <2>3. ASSUME OnePlace PROVE OnePlace'
    <3>1. \A s \in Recipients : new'[s] \cap cur'[s] = {}
      BY <2>1, <2>3 DEF OnePlace
    <3>2. made' = made
      BY DEF OpenMark
    <3> QED BY <2>2, <2>3, <3>1, <3>2 DEF OnePlace
  <2> QED BY <2>2, <2>3 DEF OpenMark, history
<1> QED BY <1>2, <1>3 DEF OpenMark

\* A Delete that succeeds takes the message out of the whole store, because the
\* message has one place only, and changes nothing else.
LEMMA RemoveEffect ==
  ASSUME Types, OnePlace, NEW w \in Requests, DeleteRemove(w),
         ~ UNCHANGED <<new, cur, removed, wlive, llive>>
  PROVE  /\ req[w].id \in Live
         /\ \A s \in Recipients : /\ new'[s] = new[s] \ {req[w].id}
                                  /\ cur'[s] = cur[s] \ {req[w].id}
                                  /\ Stored(s)' = Stored(s) \ {req[w].id}
         /\ Live' = Live \ {req[w].id}
         /\ removed' = removed \cup {req[w].id}
         /\ wlive' = [v \in Requests |-> wlive[v] /\ req[v].id # req[w].id]
         /\ llive' = [l \in Listers |-> llive[l] \ {req[w].id}]
<1> DEFINE i == req[w].id
           r == req[w].rec
<1>1. i \in Ids /\ r \in Recipients /\ FilesOK
  BY DEF DeleteRemove, Types, ReqFrames, ReqFrame, WIdle
<1>2. /\ i \in Sub(r, req[w].sub)
      /\ \/ req[w].sub = "new" /\ new' = Take(new, r, i) /\ cur' = cur
         \/ req[w].sub = "cur" /\ cur' = Take(cur, r, i) /\ new' = new
      /\ removed' = removed \cup {i}
      /\ wlive' = [v \in Requests |-> wlive[v] /\ req[v].id # i]
      /\ llive' = [l \in Listers |-> llive[l] \ {i}]
  BY DEF DeleteRemove, Found
<1>3. i \in Stored(r) /\ i \in Live
  BY <1>1, <1>2 DEF Sub, Stored, Live
<1>4. \A s \in Recipients : s # r => i \notin new[s] /\ i \notin cur[s]
  BY <1>1, <1>3 DEF OnePlace, Stored
<1>5. \A s \in Recipients : new'[s] = new[s] \ {i} /\ cur'[s] = cur[s] \ {i}
  <2>1. CASE req[w].sub = "new" /\ new' = Take(new, r, i) /\ cur' = cur
    <3>1. i \in new[r] /\ i \notin cur[r]
      BY <1>1, <1>2, <2>1 DEF Sub, OnePlace
    <3> QED BY <1>1, <1>4, <2>1, <3>1 DEF Take, FilesOK
  <2>2. CASE req[w].sub = "cur" /\ cur' = Take(cur, r, i) /\ new' = new
    <3>1. i \in cur[r] /\ i \notin new[r]
      BY <1>1, <1>2, <2>2 DEF Sub, OnePlace
    <3> QED BY <1>1, <1>4, <2>2, <3>1 DEF Take, FilesOK
  <2> QED BY <1>2, <2>1, <2>2
<1>6. \A s \in Recipients : Stored(s)' = Stored(s) \ {i}
  BY <1>5 DEF Stored
<1>7. Live' = Live \ {i}
  BY <1>6 DEF Live
<1> QED BY <1>2, <1>3, <1>5, <1>6, <1>7

\* A step of Open, Delete or Reader preserves StoreInv.
LEMMA StoreRequest ==
  ASSUME Types, StoreInv, NEW w \in Requests, Request(w)
  PROVE  StoreInv'
<1>1. CASE UNCHANGED storeVars
  BY <1>1, StoreUnchanged
<1>2. CASE OpenMark(w)
  <2>1. Live' = Live /\ UNCHANGED <<made, data, del, history>>
    BY <1>2, MarkEffect DEF Live
  <2>2. Settled' = Settled
    BY <2>1 DEF Settled, history
  <2> QED BY <1>2, <2>1, <2>2, MarkEffect
          DEF StoreInv, NotBoth, DeliverOutcome, FreshNames, history
<1>3. CASE DeleteRemove(w) /\ ~ UNCHANGED <<new, cur, removed, wlive, llive>>
  <2> DEFINE i == req[w].id
  <2>1. UNCHANGED <<made, data, del, acked, failed>>
    BY <1>3 DEF DeleteRemove
  <2>2. /\ i \in Live /\ Live' = Live \ {i} /\ removed' = removed \cup {i}
        /\ \A s \in Recipients : /\ new'[s] = new[s] \ {i}
                                 /\ cur'[s] = cur[s] \ {i}
                                 /\ Stored(s)' = Stored(s) \ {i}
    BY <1>3, RemoveEffect DEF StoreInv
  <2>3. Settled' = Settled
    BY <2>1, <2>2 DEF Settled
  <2>4. OnePlace'
    BY <2>1, <2>2 DEF StoreInv, OnePlace
  <2>5. NotBoth' /\ DeliverOutcome'
    BY <2>1, <2>2 DEF StoreInv, NotBoth, DeliverOutcome
  <2>6. FreshNames'
    BY <2>1, <2>3 DEF StoreInv, FreshNames
  <2> QED BY <2>4, <2>5, <2>6 DEF StoreInv
<1> QED BY <1>1, <1>2, <1>3
        DEF Request, RequestBegin, LocateFirst, LocateSecond, LocateFail, OpenRead,
            DeleteRemove, storeVars, files, history

\* Every step preserves StoreInv.
LEMMA StoreStep == Types /\ StoreInv /\ [Next]_vars => StoreInv'
<1> SUFFICES ASSUME Types, StoreInv, [Next]_vars PROVE StoreInv'
  OBVIOUS
<1>1. ASSUME NEW l \in Listers, List(l) PROVE StoreInv'
  <2>1. UNCHANGED storeVars
    BY <1>1 DEF List, ListBegin, ListFirst, ListEntry, ListSecond, ListNext, ListEnd,
                storeVars, files, history
  <2> QED BY <2>1, StoreUnchanged
<1>2. CASE Crash
  <2>1. Live' = Live /\ Settled' = Settled
    BY <1>2 DEF Crash, files, history, Live, Stored, Settled
  <2>2. \A d \in Deliverers : del'[d].step \notin Writing \cup {"create"}
    BY <1>2 DEF Crash, DReturned, Writing
  <2>3. FreshNames'
    BY <1>2, <2>1, <2>2 DEF Crash, files, history, FreshNames, StoreInv
  <2> QED BY <1>2, <2>1, <2>3 DEF Crash, files, history, StoreInv, OnePlace, Stored,
                                  NotBoth, DeliverOutcome
<1>3. CASE UNCHANGED vars
  BY <1>3, StoreUnchanged DEF vars, files, history, storeVars
<1> QED BY <1>1, <1>2, <1>3, StoreDeliver, StoreRequest DEF Next

-----------------------------------------------------------------------------
(* What concurrent requests and listings can rely on.                      *)

\* A message that no Delete has removed stays with its recipient, and never goes
\* back from cur/ to new/; a directory, once made, stays.
LEMMA LiveKept ==
  ASSUME Types, StoreInv, [Next]_vars
  PROVE  /\ \A i \in Ids, r \in Recipients : i \in Stored(r) /\ i \notin removed' =>
              i \in Stored(r)' /\ (i \in cur[r] => i \in cur'[r])
         /\ made \subseteq made'
<1>1. CASE UNCHANGED <<new, cur, made>>
  BY <1>1 DEF Stored
<1>2. ASSUME NEW d \in Deliverers, Deliver(d)
      PROVE  /\ made \subseteq made' /\ cur' = cur
             /\ \A r \in Recipients : new[r] \subseteq new'[r]
  BY <1>2, ZenonT(60) DEF Deliver, DeliverMkdir, DeliverCreate, DeliverWrite, DeliverClose,
              DeliverRename, DeliverCleanup, Put, Types, FilesOK, files
<1>3. ASSUME NEW w \in Requests, OpenMark(w)
      PROVE  /\ made' = made
             /\ \A r \in Recipients : Stored(r)' = Stored(r) /\ cur[r] \subseteq cur'[r]
  BY <1>3, MarkEffect
<1>4. ASSUME NEW w \in Requests, DeleteRemove(w), ~ UNCHANGED <<new, cur, made>>
      PROVE  /\ made' = made
             /\ removed' = removed \cup {req[w].id}
             /\ \A r \in Recipients : /\ Stored(r)' = Stored(r) \ {req[w].id}
                                      /\ cur'[r] = cur[r] \ {req[w].id}
  BY <1>4, RemoveEffect DEF DeleteRemove, StoreInv
<1>5. ASSUME NEW w \in Requests, Request(w)
      PROVE  UNCHANGED <<new, cur, made>> \/ OpenMark(w) \/ DeleteRemove(w)
  BY <1>5 DEF Request, RequestBegin, LocateFirst, LocateSecond, LocateFail, OpenRead, files
<1>6. ASSUME NEW l \in Listers, List(l) PROVE UNCHANGED <<new, cur, made>>
  BY <1>6 DEF List, ListBegin, ListFirst, ListEntry, ListSecond, ListNext, ListEnd, files
<1>7. ASSUME NEW d \in Deliverers, Deliver(d), NEW r \in Recipients
      PROVE  Stored(r) \subseteq Stored(r)'
  BY <1>2, <1>7 DEF Stored
<1>8. CASE Crash \/ UNCHANGED vars
  <2>1. UNCHANGED <<new, cur, made>>
    BY <1>8 DEF Crash, vars, files
  <2> QED BY <1>1, <2>1
<1> QED BY <1>1, <1>2, <1>3, <1>4, <1>5, <1>6, <1>7, <1>8 DEF Next

\* Request w is not disturbed by a step of anybody else.
LEMMA SeekingKept ==
  ASSUME Types, StoreInv, [Next]_vars, NEW w \in Requests, Seeking(w),
         req'[w] = req[w],
         wlive'[w] => wlive[w] /\ (req[w].id \in removed' => req[w].id \in removed)
  PROVE  Seeking(w)'
<1>1. ASSUME wlive'[w], req'[w].step \in {"locate", "second"}
      PROVE  \E r \in Recipients :
               /\ req'[w].id \in Stored(r)'
               /\ \/ r \in req'[w].todo
                  \/ req'[w].step = "second" /\ r = req'[w].rec /\ req'[w].id \in cur'[r]
  <2>1. PICK r \in Recipients :
               /\ req[w].id \in Stored(r)
               /\ \/ r \in req[w].todo
                  \/ req[w].step = "second" /\ r = req[w].rec /\ req[w].id \in cur[r]
    BY <1>1 DEF Seeking
  <2>2. req[w].id \in Ids
    BY <1>1 DEF Types, ReqFrames, ReqFrame, WIdle
  <2>3. req[w].id \in Live
    BY <2>1, <2>2 DEF Live
  <2>4. req[w].id \notin removed'
    BY <1>1, <2>3 DEF StoreInv, NotBoth
  <2>5. req[w].id \in Stored(r)' /\ (req[w].id \in cur[r] => req[w].id \in cur'[r])
    BY <2>1, <2>2, <2>4, LiveKept
  <2> QED BY <2>1, <2>5
<1> QED BY <1>1 DEF Seeking

\* A step of request w itself preserves Seeking(w).
LEMMA SeekingOwn ==
  ASSUME Types, StoreInv, NEW w \in Requests, Request(w), Seeking(w), "stat" \notin Faults
  PROVE  Seeking(w)'
<1>0. req[w] \in ReqFrame /\ req \in [Requests -> ReqFrame] /\ FilesOK
  BY DEF Types, ReqFrames
<1>1. ASSUME NEW op \in Ops, NEW i \in Ids, RequestBegin(w, op, i) PROVE Seeking(w)'
  <2>1. CASE req' = [req EXCEPT ![w] = WReturned("failed")]
    BY <1>0, <2>1 DEF Seeking, WReturned
  <2>2. CASE req' = [req EXCEPT ![w] = [step |-> "locate", op |-> op, id |-> i,
                                        todo |-> made, rec |-> None, sub |-> "new"]]
    <3>1. /\ req'[w].id = i /\ req'[w].step = "locate" /\ req'[w].todo = made
          /\ wlive'[w] => i \in Live
          /\ UNCHANGED <<new, cur>>
      BY <1>0, <1>1, <2>2 DEF RequestBegin, FilesOK, files
    <3>2. i \in Live => \E r \in Recipients : i \in Stored(r) /\ r \in made
      BY DEF Live, StoreInv, OnePlace
    <3> QED BY <3>1, <3>2 DEF Seeking, Stored
  <2> QED BY <1>1, <2>1, <2>2 DEF RequestBegin
<1>2. CASE LocateFirst(w)
  <2>0. \A r : \A hit \in Stat(r, LocateDirs[1], req[w].id) : hit <=> req[w].id \in new[r]
    BY DEF Stat, Sub, LocateDirs
  <2>1. PICK r \in req[w].todo :
          /\ req'[w].rec = r /\ req'[w].todo = req[w].todo \ {r} /\ req'[w].id = req[w].id
          /\ req'[w].step = IF req[w].id \in new[r] THEN "act" ELSE "second"
    <3> DEFINE Frame(r, hit) == [req[w] EXCEPT !.rec = r,
                                               !.sub = LocateDirs[1],
                                               !.todo = @ \ {r},
                                               !.step = IF hit THEN "act" ELSE "second"]
    <3>0. PICK r \in req[w].todo : \E hit \in Stat(r, LocateDirs[1], req[w].id) :
            req' = [req EXCEPT ![w] = Frame(r, hit)]
      BY <1>2 DEF LocateFirst
    <3>1. PICK hit \in Stat(r, LocateDirs[1], req[w].id) :
            req' = [req EXCEPT ![w] = Frame(r, hit)]
      BY <3>0
    <3>2. hit <=> req[w].id \in new[r]
      BY <2>0
    <3> QED BY <1>0, <3>1, <3>2 DEF ReqFrame, WFrame
  <2>2. UNCHANGED <<new, cur, wlive>> /\ req[w].step = "locate"
    BY <1>2 DEF LocateFirst, files, history
  <2> QED BY <2>1, <2>2 DEF Seeking, Stored
<1>3. CASE LocateSecond(w)
  <2>1. /\ req'[w].rec = req[w].rec /\ req'[w].todo = req[w].todo /\ req'[w].id = req[w].id
        /\ req'[w].step = IF req[w].id \in cur[req[w].rec] THEN "act" ELSE "locate"
    <3>1. PICK hit \in Stat(req[w].rec, LocateDirs[2], req[w].id) :
            req' = [req EXCEPT ![w] = [@ EXCEPT !.sub = LocateDirs[2],
                                           !.step = IF hit THEN "act" ELSE "locate"]]
      BY <1>3 DEF LocateSecond
    <3>2. hit <=> req[w].id \in cur[req[w].rec]
      BY DEF Stat, Sub, LocateDirs
    <3> QED BY <1>0, <3>1, <3>2 DEF ReqFrame, WFrame
  <2>2. UNCHANGED <<new, cur, wlive>> /\ req[w].step = "second"
    BY <1>3 DEF LocateSecond, files, history
  <2> QED BY <2>1, <2>2 DEF Seeking, Stored
<1>4. CASE LocateFail(w)
  <2>1. req[w].step = "locate" /\ req[w].todo = {} /\ wlive' = wlive
    BY <1>4 DEF LocateFail, history
  <2>2. ~wlive[w]
    BY <2>1 DEF Seeking
  <2> QED BY <1>0, <1>4, <2>1, <2>2 DEF LocateFail, Seeking, WReturned
<1>5. CASE OpenRead(w) \/ OpenMark(w) \/ DeleteRemove(w)
  <2>1. req'[w].step \in {"mark", "ok", "failed"}
    BY <1>0, <1>5 DEF OpenRead, OpenMark, DeleteRemove, WReturned, ReqFrame, WFrame
  <2> QED BY <2>1 DEF Seeking
<1> QED BY <1>1, <1>2, <1>3, <1>4, <1>5 DEF Request

\* A step that does not belong to request w leaves its frame alone, and makes
\* wlive[w] false when it removes the message of w.
LEMMA RequestFrame ==
  ASSUME Types, StoreInv, Next, NEW w \in Requests, ~Request(w), ~Crash
  PROVE  /\ req'[w] = req[w]
         /\ wlive'[w] => wlive[w] /\ (req[w].id \in removed' => req[w].id \in removed)
<1>0. req \in [Requests -> ReqFrame] /\ wlive \in [Requests -> BOOLEAN]
  BY DEF Types, ReqFrames, FilesOK
<1>1. ASSUME UNCHANGED <<req, wlive, removed>>
      PROVE  /\ req'[w] = req[w]
             /\ wlive'[w] => wlive[w] /\ (req[w].id \in removed' => req[w].id \in removed)
  BY <1>1
<1>2. ASSUME NEW d \in Deliverers, Deliver(d) PROVE UNCHANGED <<req, wlive, removed>>
  BY <1>2 DEF Deliver, DeliverMkdir, DeliverCreate, DeliverWrite, DeliverClose,
              DeliverRename, DeliverCleanup, history
<1>3. ASSUME NEW l \in Listers, List(l) PROVE UNCHANGED <<req, wlive, removed>>
  BY <1>3, ZenonT(60) DEF List, ListBegin, ListFirst, ListEntry, ListSecond, ListNext, ListEnd, history
<1>4. ASSUME NEW v \in Requests, v # w, Request(v)
      PROVE  /\ req'[w] = req[w]
             /\ wlive'[w] => wlive[w] /\ (req[w].id \in removed' => req[w].id \in removed)
  <2>1. req'[w] = req[w]
    BY <1>0, <1>4 DEF Request, RequestBegin, LocateFirst, LocateSecond, LocateFail,
                      OpenRead, OpenMark, DeleteRemove
  <2>2. CASE DeleteRemove(v) /\ ~ UNCHANGED <<new, cur, removed, wlive, llive>>
    <3>1. /\ removed' = removed \cup {req[v].id}
          /\ wlive' = [u \in Requests |-> wlive[u] /\ req[u].id # req[v].id]
      BY <2>2, RemoveEffect DEF StoreInv
    <3> QED BY <1>0, <2>1, <3>1
  <2>3. CASE UNCHANGED <<wlive, removed>>
    BY <2>1, <2>3
  <2>4. CASE \E op \in Ops, i \in Ids : RequestBegin(v, op, i)
    BY <1>0, <1>4, <2>1, <2>4 DEF RequestBegin
  <2> QED BY <1>4, <2>2, <2>3, <2>4 DEF Request, LocateFirst, LocateSecond, LocateFail,
                                        OpenRead, OpenMark, history
<1> QED BY <1>1, <1>2, <1>3, <1>4 DEF Next

\* Every step preserves Seeking.
LEMMA SeekingStep ==
  ASSUME Types, StoreInv, [Next]_vars, NEW w \in Requests, Seeking(w), "stat" \notin Faults
  PROVE  Seeking(w)'
<1>1. CASE Crash
  BY <1>1 DEF Crash, WReturned, Seeking
<1>2. CASE UNCHANGED vars
  BY <1>2, SeekingKept DEF vars, history
<1>3. CASE Next /\ ~Request(w) /\ ~Crash
  BY <1>3, RequestFrame, SeekingKept
<1> QED BY <1>1, <1>2, <1>3, SeekingOwn

-----------------------------------------------------------------------------
(* What a listing shows.                                                   *)

\* The listing of l is not disturbed by a step of anybody else.
LEMMA ShowingKept ==
  ASSUME Types, StoreInv, [Next]_vars, NEW l \in Listers, Showing(l),
         lst'[l] = lst[l],
         llive'[l] \subseteq llive[l],
         \A i \in llive'[l] : i \in removed' => i \in removed
  PROVE  Showing(l)'
<1>1. \A i : ShownBy(l, i)' <=> ShownBy(l, i)
  BY DEF ShownBy
<1>2. ASSUME NEW i \in llive'[l], ToBeShown(l, i) PROVE ToBeShown(l, i)'
  <2>1. PICK r \in Recipients :
          /\ i \in Stored(r)
          /\ \/ r \in lst[l].todo
             \/ lst[l].step = "first" /\ r = lst[l].rec /\ (i \in cur[r] \/ i \in lst[l].ents)
             \/ lst[l].step = "second" /\ r = lst[l].rec /\ i \in cur[r] /\ i \in lst[l].ents
    BY <1>2 DEF ToBeShown
  <2>2. i \in Ids /\ i \in Live
    BY <2>1 DEF Live, Stored, Types, FilesOK
  <2>3. i \notin removed'
    BY <2>2 DEF StoreInv, NotBoth
  <2>4. i \in Stored(r)' /\ (i \in cur[r] => i \in cur'[r])
    BY <2>1, <2>2, <2>3, LiveKept
  <2> QED BY <2>1, <2>4 DEF ToBeShown
<1> QED BY <1>1, <1>2 DEF Showing

\* A step of List itself preserves Showing.
LEMMA ShowingOwn ==
  ASSUME Types, StoreInv, NEW l \in Listers, List(l), Showing(l),
         Faults \cap {"read", "readdir"} = {}
  PROVE  Showing(l)'
<1>0. lst[l] \in LstFrame /\ lst \in [Listers -> LstFrame] /\ FilesOK
  BY DEF Types, LstFrames
<1>1. CASE ListBegin(l)
  <2>1. /\ lst'[l].step = "next" /\ lst'[l].todo = made
        /\ llive'[l] = Live
        /\ UNCHANGED <<new, cur>>
    BY <1>0, <1>1 DEF ListBegin, FilesOK, files
  <2>2. \A i \in Live : \E r \in Recipients : i \in Stored(r) /\ r \in made
    BY DEF Live, StoreInv, OnePlace
  <2>3. \A i \in Live : ToBeShown(l, i)'
    BY <2>1, <2>2 DEF ToBeShown, Stored
  <2> QED BY <2>1, <2>3 DEF Showing
<1>2. CASE ListFirst(l)
  <2>1. PICK r \in lst[l].todo : \E entries \in ReadDir(r, ListDirs[1]) :
          lst' = [lst EXCEPT ![l] = [lst[l] EXCEPT !.step = "first", !.rec = r,
                                                   !.todo = @ \ {r}, !.ents = entries]]
    BY <1>2 DEF ListFirst
  <2>2. ReadDir(r, ListDirs[1]) = {new[r]}
    BY DEF ReadDir, Sub, ListDirs
  <2>3. /\ lst'[l].step = "first" /\ lst'[l].rec = r /\ lst'[l].todo = lst[l].todo \ {r}
        /\ lst'[l].ents = new[r] /\ lst'[l].out = lst[l].out
    BY <1>0, <2>1, <2>2 DEF LstFrame, LFrame
  <2>4. UNCHANGED <<new, cur, llive>> /\ lst[l].step = "next"
    BY <1>2 DEF ListFirst, files, history
  <2>5. \A i : ShownBy(l, i) => ShownBy(l, i)'
    BY <2>3 DEF ShownBy
  <2>6. \A i : ToBeShown(l, i) => ToBeShown(l, i)'
    BY <2>3, <2>4 DEF ToBeShown, Stored
  <2> QED BY <2>3, <2>4, <2>5, <2>6 DEF Showing, LIdle
<1>3. CASE ListEntry(l)
  <2> DEFINE r == lst[l].rec
  <2>1. PICK j \in lst[l].ents : \E h \in ReadHeaders(j, r, ListDir(l)) :
          lst' = [lst EXCEPT ![l] = [lst[l] EXCEPT !.ents = @ \ {j},
                                                   !.out = @ \cup {SummaryOf(l, j, h)}]]
    BY <1>3 DEF ListEntry
  <2>2. PICK h \in ReadHeaders(j, r, ListDir(l)) :
          lst' = [lst EXCEPT ![l] = [lst[l] EXCEPT !.ents = @ \ {j},
                                                   !.out = @ \cup {SummaryOf(l, j, h)}]]
    BY <2>1
  <2>3. h <=> j \in Sub(r, ListDir(l)) /\ j \notin Malformed
    BY DEF ReadHeaders
  <2>4. /\ lst'[l].step = lst[l].step /\ lst'[l].rec = r /\ lst'[l].todo = lst[l].todo
        /\ lst'[l].ents = lst[l].ents \ {j}
        /\ lst'[l].out = lst[l].out \cup {SummaryOf(l, j, h)}
    BY <1>0, <2>2 DEF LstFrame, LFrame
  <2>5. UNCHANGED <<new, cur, llive>> /\ lst[l].step \in {"first", "second"}
    BY <1>3 DEF ListEntry, files, history
  <2>6. \A i : ShownBy(l, i) => ShownBy(l, i)'
    BY <2>4 DEF ShownBy
  <2>7. j \in Sub(r, ListDir(l)) => ShownBy(l, j)'
    <3>1. SummaryOf(l, j, h).id = j /\ SummaryOf(l, j, h).headers = h
      BY DEF SummaryOf
    <3> QED BY <2>3, <2>4, <3>1 DEF ShownBy
  <2>8. ASSUME NEW i, ToBeShown(l, i) PROVE ShownBy(l, i)' \/ ToBeShown(l, i)'
    <3>1. CASE i # j
      BY <2>4, <2>5, <2>8, <3>1 DEF ToBeShown, Stored
    <3>2. CASE i = j /\ j \in Sub(r, ListDir(l))
      BY <2>7, <3>2
    <3>3. CASE i = j /\ j \notin Sub(r, ListDir(l))
      <4>1. PICK s \in Recipients :
              /\ i \in Stored(s)
              /\ \/ s \in lst[l].todo
                 \/ lst[l].step = "first" /\ s = r /\ (i \in cur[s] \/ i \in lst[l].ents)
                 \/ lst[l].step = "second" /\ s = r /\ i \in cur[s] /\ i \in lst[l].ents
        BY <2>8 DEF ToBeShown
      <4>2. CASE s \in lst[l].todo
        BY <2>4, <2>5, <4>1, <4>2 DEF ToBeShown, Stored
      <4>3. CASE lst[l].step = "first" /\ s = r
        <5>1. i \in cur[s]
          BY <3>3, <4>1, <4>3 DEF ListDir, ListDirs, Sub, Stored
        <5> QED BY <2>4, <2>5, <4>1, <4>3, <5>1 DEF ToBeShown, Stored
      <4>4. CASE lst[l].step = "second" /\ s = r /\ i \in cur[s]
        BY <3>3, <4>4 DEF ListDir, ListDirs, Sub
      <4> QED BY <4>1, <4>2, <4>3, <4>4
    <3> QED BY <3>1, <3>2, <3>3
  <2> QED BY <2>4, <2>5, <2>6, <2>8 DEF Showing, LIdle
<1>4. CASE ListSecond(l)
  <2>1. PICK entries \in ReadDir(lst[l].rec, ListDirs[2]) :
          lst' = [lst EXCEPT ![l] = [@ EXCEPT !.step = "second", !.ents = entries]]
    BY <1>4 DEF ListSecond
  <2>2. entries = cur[lst[l].rec]
    BY DEF ReadDir, Sub, ListDirs
  <2>3. /\ lst'[l].step = "second" /\ lst'[l].rec = lst[l].rec /\ lst'[l].todo = lst[l].todo
        /\ lst'[l].ents = cur[lst[l].rec] /\ lst'[l].out = lst[l].out
    BY <1>0, <2>1, <2>2 DEF LstFrame, LFrame
  <2>4. UNCHANGED <<new, cur, llive>> /\ lst[l].step = "first" /\ lst[l].ents = {}
    BY <1>4 DEF ListSecond, files, history
  <2>5. \A i : ShownBy(l, i) => ShownBy(l, i)'
    BY <2>3 DEF ShownBy
  <2>6. \A i : ToBeShown(l, i) => ToBeShown(l, i)'
    BY <2>3, <2>4 DEF ToBeShown, Stored
  <2> QED BY <2>3, <2>4, <2>5, <2>6 DEF Showing, LIdle
<1>5. CASE ListNext(l)
  <2>1. /\ lst'[l].step = "next" /\ lst'[l].todo = lst[l].todo /\ lst'[l].out = lst[l].out
        /\ UNCHANGED <<new, cur, llive>> /\ lst[l].step = "second" /\ lst[l].ents = {}
    BY <1>0, <1>5 DEF ListNext, LstFrame, LFrame, files, history
  <2>2. \A i : ShownBy(l, i) => ShownBy(l, i)'
    BY <2>1 DEF ShownBy
  <2>3. \A i : ToBeShown(l, i) => ToBeShown(l, i)'
    BY <2>1 DEF ToBeShown, Stored
  <2> QED BY <2>1, <2>2, <2>3 DEF Showing, LIdle
<1>6. CASE ListEnd(l)
  <2>1. /\ lst'[l].step = "done" /\ lst'[l].out = lst[l].out /\ llive' = llive
        /\ lst[l].step = "next" /\ lst[l].todo = {}
    BY <1>0, <1>6 DEF ListEnd, LReturned, history
  <2>2. \A i \in llive[l] : ShownBy(l, i)
    BY <2>1 DEF Showing, ToBeShown, LIdle
  <2>3. \A i : ShownBy(l, i) => ShownBy(l, i)'
    BY <2>1 DEF ShownBy
  <2> QED BY <2>1, <2>2, <2>3 DEF Showing, LIdle
<1> QED BY <1>1, <1>2, <1>3, <1>4, <1>5, <1>6 DEF List

\* A step that does not belong to l leaves its frame alone, and drops from
\* llive[l] the message that it removes.
LEMMA ListFrame ==
  ASSUME Types, StoreInv, Next, NEW l \in Listers, ~List(l), ~Crash
  PROVE  /\ lst'[l] = lst[l]
         /\ llive'[l] \subseteq llive[l]
         /\ \A i \in llive'[l] : i \in removed' => i \in removed
<1>0. lst \in [Listers -> LstFrame] /\ llive \in [Listers -> SUBSET Ids]
  BY DEF Types, LstFrames, FilesOK
<1>1. ASSUME NEW d \in Deliverers, Deliver(d) PROVE UNCHANGED <<lst, llive, removed>>
  BY <1>1 DEF Deliver, DeliverMkdir, DeliverCreate, DeliverWrite, DeliverClose,
              DeliverRename, DeliverCleanup, history
<1>2. ASSUME NEW m \in Listers, m # l, List(m)
      PROVE  removed' = removed /\ lst'[l] = lst[l] /\ llive'[l] = llive[l]
  BY <1>0, <1>2 DEF List, ListBegin, ListFirst, ListEntry, ListSecond, ListNext, ListEnd,
                    history
<1>3. ASSUME NEW w \in Requests, Request(w)
      PROVE  /\ lst'[l] = lst[l]
             /\ llive'[l] \subseteq llive[l]
             /\ \A i \in llive'[l] : i \in removed' => i \in removed
  <2>1. CASE DeleteRemove(w) /\ ~ UNCHANGED <<new, cur, removed, wlive, llive>>
    <3>1. /\ removed' = removed \cup {req[w].id}
          /\ llive' = [m \in Listers |-> llive[m] \ {req[w].id}]
      BY <2>1, RemoveEffect DEF StoreInv
    <3> QED BY <2>1, <3>1 DEF DeleteRemove
  <2>2. CASE UNCHANGED <<lst, llive, removed>>
    BY <2>2
  <2> QED BY <1>3, <2>1, <2>2 DEF Request, RequestBegin, LocateFirst, LocateSecond,
                                  LocateFail, OpenRead, OpenMark, DeleteRemove, history
<1> QED BY <1>1, <1>2, <1>3 DEF Next

\* Every step preserves Showing.
LEMMA ShowingStep ==
  ASSUME Types, StoreInv, [Next]_vars, NEW l \in Listers, Showing(l),
         Faults \cap {"read", "readdir"} = {}
  PROVE  Showing(l)'
<1>1. CASE Crash
  BY <1>1 DEF Crash, LReturned, Showing, LIdle
<1>2. CASE UNCHANGED vars
  BY <1>2, ShowingKept DEF vars, history
<1>3. CASE Next /\ ~List(l) /\ ~Crash
  BY <1>3, ListFrame, ShowingKept
<1> QED BY <1>1, <1>2, <1>3, ShowingOwn
-----------------------------------------------------------------------------
(* Contents.                                                               *)

\* When writes do not fail, every step preserves Whole.
LEMMA WholeStep ==
  ASSUME Types, StoreInv, Whole, [Next]_vars, "write" \notin Faults
  PROVE  Whole'
<1>0. FilesOK /\ DelFrames
  BY DEF Types
<1>1. ASSUME data' = data, Live' \subseteq Live,
             \A d \in Deliverers : del'[d].step \in {"close", "rename"} =>
                /\ del[d].step \in {"close", "rename"}
                /\ del'[d].id = del[d].id
      PROVE  Whole'
  BY <1>1 DEF Whole, StoredIsComplete
<1>2. ASSUME NEW d \in Deliverers, Deliver(d) PROVE Whole'
  <2>1. del[d] \in DelFrame
    BY <1>0 DEF DelFrames
  <2>2. ASSUME UNCHANGED <<new, cur>> PROVE Live' = Live
    BY <2>2 DEF Live, Stored
  <2>3. ASSUME NEW r \in Recipients, DeliverMkdir(d, r) PROVE Whole'
    BY <1>0, <1>1, <2>2, <2>3 DEF DeliverMkdir, DelFrames, DReturned
  <2>4. CASE DeliverCreate(d)
    <3>1. CASE UNCHANGED data /\ del' = [del EXCEPT ![d] = DReturned("failed")]
      BY <1>0, <1>1, <2>2, <2>4, <3>1 DEF DeliverCreate, DelFrames, DReturned
    <3>2. ASSUME NEW i \in Ids, data[i] = "unused",
                 data' = [data EXCEPT ![i] = "partial"],
                 del' = [del EXCEPT ![d] = [@ EXCEPT !.step = "write", !.id = i]]
          PROVE  Whole'
      <4>1. i \notin Live
        BY <3>2 DEF StoreInv, FreshNames, Settled
      <4>2. \A j \in Ids \ {i} : data'[j] = data[j]
        BY <1>0, <3>2 DEF FilesOK
      <4>3. StoredIsComplete'
        BY <2>2, <2>4, <4>1, <4>2 DEF DeliverCreate, Whole, StoredIsComplete, Live
      <4>4. \A e \in Deliverers : del'[e].step \in {"close", "rename"} =>
              e # d /\ del'[e] = del[e]
        BY <1>0, <2>1, <3>2 DEF DelFrames, DelFrame, DFrame
      <4>5. \A e \in Deliverers : del'[e].step \in {"close", "rename"} =>
              del[e].id \in Ids \ {i}
        BY <3>2, <4>4 DEF StoreInv, FreshNames, Writing
      <4> QED BY <4>2, <4>3, <4>4, <4>5 DEF Whole
    <3> QED BY <2>4, <3>1, <3>2 DEF DeliverCreate
  <2>5. CASE DeliverWrite(d)
    <3>1. del[d].id \in Ids
      BY <2>1, <2>5 DEF DeliverWrite, DelFrame, Writing
    <3>2. \A j \in Ids : data'[j] = IF j = del[d].id THEN "full" ELSE data[j]
      BY <1>0, <2>5, <3>1 DEF DeliverWrite, FilesOK
    <3>3. StoredIsComplete'
      BY <2>2, <2>5, <3>2 DEF DeliverWrite, Whole, StoredIsComplete, Live
    <3>4. \A e \in Deliverers : del'[e].id = del[e].id
                                /\ (e # d => del'[e].step = del[e].step)
      BY <1>0, <2>1, <2>5 DEF DeliverWrite, DelFrames, DelFrame, DFrame
    <3>5. \A e \in Deliverers : e # d /\ del[e].step \in {"close", "rename"} =>
            del[e].id \in Ids /\ data[del[e].id] = "full"
      BY DEF StoreInv, FreshNames, Writing, Whole
    <3> QED BY <3>1, <3>2, <3>3, <3>4, <3>5 DEF Whole
  <2>6. CASE DeliverClose(d)
    <3>1. \A e \in Deliverers : del'[e].step \in {"close", "rename"} =>
            del[e].step \in {"close", "rename"} /\ del'[e].id = del[e].id
      BY <1>0, <2>1, <2>6 DEF DeliverClose, DelFrames, DelFrame, DFrame
    <3> QED BY <1>1, <2>2, <2>6, <3>1 DEF DeliverClose, files
  <2>7. CASE DeliverRename(d)
    <3>1. /\ data' = data /\ cur' = cur
          /\ del[d].id \in Ids /\ data[del[d].id] = "full"
      BY <2>1, <2>7 DEF DeliverRename, DelFrame, Writing, Whole
    <3>2. \A r \in Recipients : new'[r] \subseteq new[r] \cup {del[d].id}
      BY <1>0, <2>7 DEF DeliverRename, Put, FilesOK
    <3>3. Live' \subseteq Live \cup {del[d].id}
      BY <3>1, <3>2 DEF Live, Stored
    <3>4. \A e \in Deliverers : del'[e].step \in {"close", "rename"} => del'[e] = del[e]
      BY <1>0, <2>1, <2>7 DEF DeliverRename, DelFrames, DelFrame, DFrame, DReturned
    <3> QED BY <3>1, <3>3, <3>4 DEF Whole, StoredIsComplete
  <2>8. CASE DeliverCleanup(d)
    BY <1>0, <1>1, <2>2, <2>8 DEF DeliverCleanup, DelFrames, DReturned
  <2> QED BY <1>2, <2>3, <2>4, <2>5, <2>6, <2>7, <2>8 DEF Deliver
<1>3. ASSUME NEW w \in Requests, Request(w) PROVE Whole'
  <2>1. UNCHANGED <<data, del>>
    BY <1>3 DEF Request, RequestBegin, LocateFirst, LocateSecond, LocateFail, OpenRead,
                OpenMark, DeleteRemove, files
  <2>2. CASE OpenMark(w)
    <3>1. Live' = Live
      BY <2>2, MarkEffect DEF Live
    <3> QED BY <1>1, <2>1, <3>1
  <2>3. CASE DeleteRemove(w) /\ ~ UNCHANGED <<new, cur, removed, wlive, llive>>
    <3>1. Live' \subseteq Live
      BY <2>3, RemoveEffect DEF StoreInv
    <3> QED BY <1>1, <2>1, <3>1
  <2>4. CASE UNCHANGED <<new, cur>>
    <3>1. Live' = Live
      BY <2>4 DEF Live, Stored
    <3> QED BY <1>1, <2>1, <3>1
  <2> QED BY <1>3, <2>2, <2>3, <2>4 DEF Request, RequestBegin, LocateFirst, LocateSecond,
                                        LocateFail, OpenRead, files
<1>4. ASSUME NEW l \in Listers, List(l) PROVE Whole'
  <2>1. UNCHANGED <<data, del, new, cur>>
    BY <1>4 DEF List, ListBegin, ListFirst, ListEntry, ListSecond, ListNext, ListEnd, files
  <2> QED BY <1>1, <2>1 DEF Live, Stored
<1>5. CASE Crash
  <2>1. UNCHANGED <<data, new, cur>> /\ \A d \in Deliverers : del'[d].step = "idle"
    BY <1>5 DEF Crash, files, DReturned
  <2> QED BY <1>1, <2>1 DEF Live, Stored
<1>6. CASE UNCHANGED vars
  BY <1>1, <1>6 DEF vars, files, Live, Stored
<1> QED BY <1>2, <1>3, <1>4, <1>5, <1>6 DEF Next

-----------------------------------------------------------------------------
(* The theorems.                                                           *)

\* IInv holds in every reachable state; the properties that TLC checks on small
\* instances are its consequences.
THEOREM Invariance == Spec => []IInv
<1> DEFINE Inv == Types /\ IInv
<1>1. Init => Inv
  <2> SUFFICES ASSUME Init PROVE Inv
    OBVIOUS
  <2>1. Types /\ TypeOK /\ StoreInv
    BY TypesInit, TypesTypeOK, StoreInit
  <2>2. Whole
    BY DEF Init, Whole, StoredIsComplete, Live, Stored, DReturned
  <2>3. \A w \in Requests : Seeking(w)
    BY DEF Init, Seeking, WReturned
  <2>4. \A l \in Listers : Showing(l)
    BY DEF Init, Showing, LReturned, LIdle
  <2> QED BY <2>1, <2>2, <2>3, <2>4 DEF IInv
<1>2. Inv /\ [Next]_vars => Inv'
  <2> SUFFICES ASSUME Inv, [Next]_vars PROVE Inv'
    OBVIOUS
  <2>0. Types' /\ StoreInv'
    BY TypesStep, StoreStep DEF IInv
  <2>1. TypeOK'
    BY <2>0 DEF Types, TypeOK, FilesOK, DelFrames, ReqFrames, LstFrames, DelFrame,
                ReqFrame, LstFrame
  <2>2. "write" \notin Faults => Whole'
    BY WholeStep DEF IInv
  <2>3. "stat" \notin Faults => \A w \in Requests : Seeking(w)'
    BY SeekingStep DEF IInv
  <2>4. Faults \cap {"read", "readdir"} = {} => \A l \in Listers : Showing(l)'
    BY ShowingStep DEF IInv
  <2> QED BY <2>0, <2>1, <2>2, <2>3, <2>4 DEF IInv
<1> QED BY <1>1, <1>2, PTL DEF Spec

\* In every state that the program can reach, whatever fails and whenever it is
\* killed, the variables have their types.
THEOREM TypeCorrect == Spec => []TypeOK
<1>1. IInv => TypeOK
  BY DEF IInv
<1> QED BY <1>1, Invariance, PTL

\* A message that Deliver acknowledged is in the store until a Delete removes it,
\* and one that it reported an error for never shows up, for any number of
\* goroutines, whatever fails and whenever the process is killed.
THEOREM DeliverOutcomeCorrect == Spec => []DeliverOutcome
<1>1. IInv => DeliverOutcome
  BY DEF IInv, StoreInv
<1> QED BY <1>1, Invariance, PTL

\* Every file that a reader can see is whole, provided that Write and Sync do not
\* fail: Deliver loses their errors, so the proviso cannot be dropped.
THEOREM StoredCorrect == ASSUME "write" \notin Faults PROVE Spec => []StoredIsComplete
<1>1. IInv => StoredIsComplete
  BY DEF IInv, Whole
<1> QED BY <1>1, Invariance, PTL

\* A request for a message that nobody removes never ends in the ErrNotExist of
\* locate, whatever the other goroutines do, provided that os.Stat works.
THEOREM LocateCorrect == Spec => []LocateFindsLive
<1>1. IInv => LocateFindsLive
  BY DEF IInv, LocateFindsLive, Seeking
<1> QED BY <1>1, Invariance, PTL

\* A listing shows every message that was in the store from its beginning to its
\* end, although it reads the two directories of a recipient at different times
\* and messages move from one to the other meanwhile.
THEOREM ListCorrect == Spec => []ListComplete
<1>1. IInv => ListComplete
  BY DEF IInv, ListComplete, Showing
<1> QED BY <1>1, Invariance, PTL

-----------------------------------------------------------------------------
(* Maildir implements Mailbox.                                             *)

InNew(i) == \E r \in Recipients : i \in new[r]
InCur(i) == \E r \in Recipients : i \in cur[r]
BoxMap   == [i \in Ids |-> BoxOf(i)]

\* A step that leaves new/ and cur/ alone, and removes nothing, is a stutter.
LEMMA BoxUnchanged == UNCHANGED <<new, cur, removed>> => BoxMap' = BoxMap
BY DEF BoxMap, BoxOf

\* A step that changes the status of one message only is a change of that entry.
LEMMA BoxChanged ==
  ASSUME NEW i \in Ids,
         \A j \in Ids \ {i} : BoxOf(j)' = BoxOf(j)
  PROVE  BoxMap' = [BoxMap EXCEPT ![i] = BoxOf(i)']
BY DEF BoxMap

\* Every step of Maildir is a step of Mailbox or leaves the mailbox as it is.
LEMMA BoxStep ==
  ASSUME Types, StoreInv, [Next]_vars
  PROVE  [MB!Next]_BoxMap
<1> USE DEF InNew, InCur
<1>1. CASE UNCHANGED <<new, cur, removed>>
  BY <1>1, BoxUnchanged
<1>2. ASSUME NEW d \in Deliverers, DeliverRename(d), new' = Put(new, del[d].rec, del[d].id)
      PROVE  MB!Next
  <2>1. PICK i \in Ids, r \in Recipients :
          i = del[d].id /\ r = del[d].rec /\ i \notin Settled
    BY <1>2 DEF DeliverRename, Types, DelFrames, DelFrame, Writing, StoreInv, FreshNames
  <2>2. \A s \in Recipients : new'[s] = IF s = r THEN new[s] \cup {i} ELSE new[s]
    BY <1>2, <2>1 DEF Put, Types, FilesOK
  <2>3. cur' = cur /\ removed' = removed
    BY <1>2 DEF DeliverRename
  <2>4. BoxOf(i) = "absent"
    BY <2>1 DEF BoxOf, Settled, Live, Stored
  <2>5. BoxOf(i)' = "unread"
    BY <2>1, <2>2 DEF BoxOf
  <2>6. \A j \in Ids \ {i} : BoxOf(j)' = BoxOf(j)
    <3> SUFFICES ASSUME NEW j \in Ids \ {i} PROVE BoxOf(j)' = BoxOf(j)
      OBVIOUS
    <3>1. InNew(j)' <=> InNew(j)
      BY <2>2
    <3> QED BY <2>3, <3>1 DEF BoxOf
  <2>7. BoxMap' = [BoxMap EXCEPT ![i] = "unread"] /\ BoxMap[i] = "absent"
    BY <2>1, <2>4, <2>5, <2>6, BoxChanged DEF BoxMap
  <2> QED BY <2>1, <2>7 DEF MB!Next, MB!Deliver, MB!Become, BoxMap
<1>3. ASSUME NEW w \in Requests, OpenMark(w), ~ UNCHANGED <<new, cur>> PROVE MB!Next
  <2>1. PICK i \in Ids, r \in Recipients :
          i = req[w].id /\ r = req[w].rec /\ i \in new[r]
    BY <1>3 DEF OpenMark, Types, ReqFrames, ReqFrame, WIdle
  <2>2. \A s \in Recipients : /\ new'[s] = IF s = r THEN new[s] \ {i} ELSE new[s]
                              /\ cur'[s] = IF s = r THEN cur[s] \cup {i} ELSE cur[s]
    BY <1>3, <2>1 DEF OpenMark, Put, Take, Types, FilesOK
  <2>3. removed' = removed
    BY <1>3 DEF OpenMark, history
  <2>4. BoxOf(i) = "unread"
    BY <2>1 DEF BoxOf
  <2>5. \A s \in Recipients : i \notin new'[s]
    BY <2>1, <2>2 DEF StoreInv, OnePlace, Stored
  <2>6. BoxOf(i)' = "read"
    BY <2>1, <2>2, <2>5 DEF BoxOf
  <2>7. \A j \in Ids \ {i} : BoxOf(j)' = BoxOf(j)
    <3> SUFFICES ASSUME NEW j \in Ids \ {i} PROVE BoxOf(j)' = BoxOf(j)
      OBVIOUS
    <3>1. (InNew(j)' <=> InNew(j)) /\ (InCur(j)' <=> InCur(j))
      BY <2>2
    <3> QED BY <2>3, <3>1 DEF BoxOf
  <2>8. BoxMap' = [BoxMap EXCEPT ![i] = "read"] /\ BoxMap[i] = "unread"
    BY <2>1, <2>4, <2>6, <2>7, BoxChanged DEF BoxMap
  <2> QED BY <2>1, <2>8 DEF MB!Next, MB!MarkRead, MB!Become, BoxMap
<1>4. ASSUME NEW w \in Requests, DeleteRemove(w), ~ UNCHANGED <<new, cur, removed>>
      PROVE  MB!Next
  <2>1. PICK i \in Ids :
          /\ i \in Live /\ removed' = removed \cup {i}
          /\ \A s \in Recipients : new'[s] = new[s] \ {i} /\ cur'[s] = cur[s] \ {i}
    <3>1. req[w].id \in Ids
      BY <1>4 DEF DeleteRemove, Types, ReqFrames, ReqFrame, WIdle
    <3> QED BY <1>4, <3>1, RemoveEffect DEF StoreInv
  <2>2. BoxOf(i) \in {"unread", "read"}
    BY <2>1 DEF BoxOf, Live, Stored
  <2>3. BoxOf(i)' = "deleted"
    BY <2>1 DEF BoxOf
  <2>4. \A j \in Ids \ {i} : BoxOf(j)' = BoxOf(j)
    <3> SUFFICES ASSUME NEW j \in Ids \ {i} PROVE BoxOf(j)' = BoxOf(j)
      OBVIOUS
    <3>1. (InNew(j)' <=> InNew(j)) /\ (InCur(j)' <=> InCur(j))
      BY <2>1
    <3> QED BY <2>1, <3>1 DEF BoxOf
  <2>6. BoxMap' = [BoxMap EXCEPT ![i] = "deleted"] /\ BoxMap[i] \in {"unread", "read"}
    BY <2>2, <2>3, <2>4, BoxChanged DEF BoxMap
  <2> QED BY <2>6 DEF MB!Next, MB!Remove, MB!Become, BoxMap
<1>5. ASSUME NEW d \in Deliverers, Deliver(d)
      PROVE  \/ UNCHANGED <<new, cur, removed>>
             \/ DeliverRename(d) /\ new' = Put(new, del[d].rec, del[d].id)
  BY <1>5 DEF Deliver, DeliverMkdir, DeliverCreate, DeliverWrite, DeliverClose,
              DeliverRename, DeliverCleanup, files, history
<1>6. ASSUME NEW w \in Requests, Request(w)
      PROVE  UNCHANGED <<new, cur, removed>> \/ OpenMark(w) \/ DeleteRemove(w)
  BY <1>6 DEF Request, RequestBegin, LocateFirst, LocateSecond, LocateFail, OpenRead,
              files, history
<1>7. ASSUME NEW l \in Listers, List(l) PROVE UNCHANGED <<new, cur, removed>>
  BY <1>7 DEF List, ListBegin, ListFirst, ListEntry, ListSecond, ListNext, ListEnd,
              files, history
<1>8. Crash \/ UNCHANGED vars => UNCHANGED <<new, cur, removed>>
  BY DEF Crash, vars, files, history
<1>9. ASSUME NEW w \in Requests, OpenMark(w) PROVE removed' = removed
  BY <1>9 DEF OpenMark, history
<1> QED BY <1>1, <1>2, <1>3, <1>4, <1>5, <1>6, <1>7, <1>8, <1>9 DEF Next

\* Seen from outside, the lock-free maildir behaves like a mailbox with atomic
\* operations: a message arrives once, is read, is deleted, and never comes back
\* or turns unread again, for any number of concurrent goroutines.
THEOREM Refinement == Spec => RefinesMailbox
<1>1. Init => MB!Init
  BY DEF Init, MB!Init, BoxOf
<1>2. Init => Types /\ StoreInv
  BY TypesInit, StoreInit
<1>3. Types /\ StoreInv /\ [Next]_vars => (Types /\ StoreInv)'
  BY TypesStep, StoreStep
<1>4. Types /\ StoreInv /\ [Next]_vars => [MB!Next]_BoxMap
  BY BoxStep
<1> QED BY <1>1, <1>2, <1>3, <1>4, PTL DEF Spec, RefinesMailbox, MB!Spec, BoxMap
=============================================================================
