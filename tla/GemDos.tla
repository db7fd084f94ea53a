------------------------------- MODULE GemDos -------------------------------
(***************************************************************************)
(* The guest's file selector (fe2.s, from L72dcc_ReadDir to                *)
(* L72fda_DeleteSavefile) at work with the GEMDOS calls of GemFiles and    *)
(* GemSearch.  It lists the directory, loads, saves or deletes a file, and *)
(* lists again; a step is one host call with what the guest does up to the *)
(* next one.  A cold reset can come between any two, and the host's files  *)
(* can change.                                                             *)
(*                                                                         *)
(* The guest tests D0 after every call, whether or not the call wrote it:  *)
(* ParentType and the type of the last entry are what it happens to hold   *)
(* before Fsfirst and Fsnext.                                              *)
(***************************************************************************)
EXTENDS GemSearch

CONSTANTS
  MaxEntries        \* $3f: entries in the selector, the parent among them

\* After the first entry the guest makes no test for room.
ASSUME GuestAssumption == MaxEntries \in Nat /\ MaxEntries > 2

VARIABLES
  pc,               \* where the guest is
  listing,          \* A6_dir_list_entries, without the parent
  chosen,           \* the file picked
  size,             \* d7: its length
  handle,           \* d1: the handle, pushed as a word
  complete,         \* the last read or write did all of it
  report,           \* what the selector tells the player
  snapshot,         \* history: what matched when the listing was begun
  disturbed         \* history: the host refused something or changed its
                    \* files since the listing was begun

guestVars == <<pc, listing, chosen, size, handle, complete, report, snapshot>>
vars == <<fileVars, searchVars, d0, guestVars, disturbed>>


ParentType == 4
FileType   == 0
DirType    == 2

TypeOf(h) == IF h \in Directories THEN DirType ELSE FileType

Entry(rec) == [file |-> rec.name, len |-> rec.size]

Init ==
  /\ FilesInit
  /\ SearchInit
  /\ d0 = 0
  /\ pc = "idle"
  /\ listing = <<>>
  /\ chosen = 0
  /\ size = 0
  /\ handle = 0
  /\ complete = FALSE
  /\ report = "none"
  /\ snapshot = <<>>
  /\ disturbed = FALSE

\* The listing is made anew before it is looked at again.
Forget == listing' = <<>> /\ snapshot' = <<>>

\* L72dcc_ReadDir: Fsetdta, after the parent's entry has left its type in D0.
Fsetdta ==
  /\ pc \in {"idle", "listed"}
  /\ SetDTA(ParentType)
  /\ pc' = "search"
  /\ Forget
  /\ chosen' = 0
  /\ size' = 0
  /\ handle' = 0
  /\ complete' = FALSE
  /\ report' = "none"
  /\ disturbed' = FALSE
  /\ UNCHANGED fileVars

\* Fsfirst.
Fsfirst(result, stats) ==
  /\ pc = "search"
  /\ SFirst(result, stats, d0)
  /\ IF Word(d0') = 0
     THEN listing' = <<Entry(dta')>> /\ pc' = "next"
     ELSE UNCHANGED listing /\ pc' = "listed"
  /\ snapshot' = Matching
  /\ disturbed' = (disturbed \/ result # "ok" \/ ~stats)
  /\ UNCHANGED <<fileVars, chosen, size, handle, complete, report>>

\* Mutant: the test for the end of the table is off by one.
RoomAtLimit(n) == n + 1 <= MaxEntries

\* Whether there is room for more after n entries and the parent's.
Room(n) == n + 1 < MaxEntries

\* Fsnext; adding the last entry has left its type in D0.
Fsnext(stats) ==
  /\ pc = "next"
  /\ SNext(stats, TypeOf(listing[Len(listing)].file))
  /\ IF Word(d0') = 0
     THEN /\ listing' = Append(listing, Entry(dta'))
          /\ pc' = IF Room(Len(listing) + 1) THEN "next" ELSE "listed"
     ELSE UNCHANGED listing /\ pc' = "listed"
  /\ disturbed' = (disturbed \/ ~stats)
  /\ UNCHANGED <<fileVars, chosen, size, handle, complete, report, snapshot>>

\* L72e92_ReadSavefile for an entry of the listing: Fopen, with a test for 0
\* though errors are negative.
Fopen(e, refused) ==
  /\ pc = "listed"
  /\ e.file \notin Directories
  /\ Open(StName[e.file], refused)
  /\ chosen' = e.file
  /\ size' = e.len
  /\ handle' = Word(d0')
  /\ IF d0' = 0
     THEN pc' = "idle" /\ report' = "failed"
     ELSE pc' = "read" /\ UNCHANGED report
  /\ disturbed' = (disturbed \/ refused)
  /\ Forget
  /\ UNCHANGED <<searchVars, complete>>

\* Mutant: a short read goes back to the selector at once.
FreadGivesUp ==
  /\ pc = "read"
  /\ Read(handle, size, d0)
  /\ complete' = (d0' = size)
  /\ IF complete'
     THEN pc' = "readDone" /\ UNCHANGED report
     ELSE pc' = "idle" /\ report' = "failed"
  /\ UNCHANGED <<searchVars, listing, chosen, size, handle, snapshot, disturbed>>

\* Fread; complete or not, Fclose follows.
Fread ==
  /\ pc = "read"
  /\ Read(handle, size, d0)
  /\ complete' = (d0' = size)
  /\ pc' = "readDone"
  /\ UNCHANGED <<searchVars, listing, chosen, size, handle, report, snapshot, disturbed>>

\* L72f36_WriteSavefile for a name the player typed: Fcreate.
Fcreate(st, len, refused) ==
  /\ pc = "listed"
  /\ Create(st, refused)
  /\ chosen' = Own[st]
  /\ size' = len
  /\ handle' = Word(d0')
  /\ IF Word(d0') >= 32768
     THEN pc' = "idle" /\ report' = "failed"
     ELSE pc' = "write" /\ UNCHANGED report
  /\ disturbed' = (disturbed \/ refused)
  /\ Forget
  /\ UNCHANGED <<searchVars, complete>>

Fwrite(taken) ==
  /\ pc = "write"
  /\ taken <= size
  /\ Write(handle, taken, d0)
  /\ complete' = (d0' = size)
  /\ pc' = "writeDone"
  /\ disturbed' = (disturbed \/ taken < size)
  /\ UNCHANGED <<searchVars, listing, chosen, size, handle, report, snapshot>>

\* Fclose, after a complete transfer or a failed one.
Fclose(kept) ==
  /\ pc \in {"readDone", "writeDone"}
  /\ pc = "readDone" => kept = MaxLen
  /\ Close(handle, kept, d0)
  /\ pc' = "idle"
  /\ report' = IF ~complete THEN "failed" ELSE IF pc = "readDone" THEN "loaded" ELSE "saved"
  /\ disturbed' = (disturbed \/ kept < size)
  /\ UNCHANGED <<searchVars, listing, chosen, size, handle, complete, snapshot>>

\* L72fda_DeleteSavefile: Fdelete.
Fdelete(e, refused) ==
  /\ pc = "listed"
  /\ e.file \notin Directories
  /\ UnLink(StName[e.file], refused)
  /\ chosen' = e.file
  /\ pc' = "idle"
  /\ report' = IF d0' = 0 THEN "deleted" ELSE "failed"
  /\ disturbed' = (disturbed \/ refused)
  /\ Forget
  /\ UNCHANGED <<searchVars, size, handle, complete>>

\* Reset_VM: the host's tables and the guest's memory.
ColdReset ==
  /\ FilesReset
  /\ SearchReset
  /\ d0' = 0
  /\ pc' = "idle"
  /\ listing' = <<>>
  /\ chosen' = 0
  /\ size' = 0
  /\ handle' = 0
  /\ complete' = FALSE
  /\ report' = "none"
  /\ snapshot' = <<>>
  /\ disturbed' = FALSE

Disturb(h, len) ==
  /\ HostChange(h, len)
  /\ disturbed' = TRUE
  /\ UNCHANGED <<searchVars, guestVars>>

Results == {"ok", "nopath", "noscan"}

Next ==
  \/ Fsetdta
  \/ \E r \in Results, stats \in BOOLEAN : Fsfirst(r, stats)
  \/ \E stats \in BOOLEAN : Fsnext(stats)
  \/ \E i \in DOMAIN listing, refused \in BOOLEAN :
       Fopen(listing[i], refused) \/ Fdelete(listing[i], refused)
  \/ Fread
  \/ \E st \in StNames, len \in 0 .. MaxLen, refused \in BOOLEAN : Fcreate(st, len, refused)
  \/ \E taken \in 0 .. MaxLen : Fwrite(taken)
  \/ \E kept \in 0 .. MaxLen : Fclose(kept)
  \/ ColdReset
  \/ \E h \in HostFiles, len \in Absent .. MaxLen : Disturb(h, len)

Spec == Init /\ [][Next]_vars

-----------------------------------------------------------------------------

(***************************************************************************)
(* fe2.s:45854-45969: whatever fails on the way, and wherever a cold reset *)
(* comes, the guest is back in its selector with every file closed, so it  *)
(* never runs out of handles.                                              *)
(***************************************************************************)
HandlesReturned == pc \in {"idle", "search", "next", "listed"} => Free = Table

(***************************************************************************)
(* fe2.s:45787-45846: a listing made while the host changes nothing shows  *)
(* the files that were there when it was begun, in order and once each, as *)
(* many as fit; and it is made from lists that are the search's own.       *)
(***************************************************************************)
Shown == IF Len(snapshot) < MaxEntries - 1 THEN Len(snapshot) ELSE MaxEntries - 1

ListingFaithful ==
  /\ ListsOwned
  /\ pc = "listed" /\ ~disturbed =>
       /\ Len(listing) = Shown
       /\ \A i \in 1 .. Len(listing) : listing[i].file = snapshot[i]

(***************************************************************************)
(* fe2.s:45854-46005: without the host's doing nothing the player asks for *)
(* fails: the handle is there, the size in the listing is the file's, and  *)
(* all of it is read.  Only names are excepted: that of a directory, which *)
(* is no name for a file, and that of a file which its name in the guest   *)
(* does not fit, or fits only after another.                               *)
(***************************************************************************)
Misnamed ==
  \/ Resolve(StName[chosen]) \in Directories
  \/ /\ Exists(chosen)
     /\ \/ chosen \notin Fits[StName[chosen]]
        \/ \E g \in Fits[StName[chosen]] : g < chosen /\ Exists(g)

NothingFails == report = "failed" => disturbed \/ Misnamed

(***************************************************************************)
(* fe2.s:45946-45957, hostcall.c:671: a save reported as done is on the    *)
(* host's disk, whole, unless the host refused its last bytes when the     *)
(* file was closed, which the call does not report.                        *)
(***************************************************************************)
SaveIsKept ==
  report = "saved" /\ ~disturbed => disk[Resolve(StName[chosen])] = size
=============================================================================
