------------------------------ MODULE GemFiles ------------------------------
(***************************************************************************)
(* The file calls of GEMDOS that hardware/hostcall.c carries out on the    *)
(* host: the table FileHandles, the C streams behind it and the files of   *)
(* the directory the guest works in.                                       *)
(*                                                                         *)
(* A call returns its result in the guest's register D0, or leaves it as   *)
(* it was: every operation has a parameter d, what the guest had in D0.    *)
(* What the host decides (whether fopen succeeds, how much of a write      *)
(* reaches the disk) is a parameter too.                                   *)
(*                                                                         *)
(* A file is a number, in the order in which the host lists a directory.   *)
(* StName is the upper-case, shortened name the guest sees of it; several  *)
(* files may have the same.  Fits[st] are the files that                   *)
(* GemDOS_CreateHardDriveFileName accepts for st (equal but for the case   *)
(* or, from eight characters on, beginning with st), Own[st] the file that *)
(* is made under that very name.                                           *)
(***************************************************************************)
EXTENDS Integers

CONSTANTS
  MaxFileHandles,   \* MAX_FILE_HANDLES
  Streams,          \* the addresses fopen returns
  NoStream,         \* NULL
  HostFiles,        \* files and directories of the host
  StNames,          \* names the guest uses
  Directories,      \* those that are directories
  StName, Fits, Own,
  MaxLen            \* bound on the length of a file

ASSUME FilesAssumption ==
  /\ MaxFileHandles \in Nat \ {0}
  /\ 64 + MaxFileHandles <= 256
  /\ NoStream \notin Streams
  /\ HostFiles \subseteq Nat
  /\ StName \in [HostFiles -> StNames]
  /\ Fits \in [StNames -> SUBSET HostFiles]
  /\ Own \in [StNames -> HostFiles]
  /\ \A st \in StNames : Own[st] \in Fits[st] /\ StName[Own[st]] = st
  /\ Directories \subseteq HostFiles
  /\ MaxLen \in Nat

VARIABLES
  fh,               \* FileHandles
  open,             \* the C library's open streams
  stream,           \* what each open stream is on, and its position
  disk,             \* the length of each file, or Absent
  d0                \* the guest's D0 after the last host call

fileVars == <<fh, open, stream, disk>>

BASE_FILEHANDLE == 64
EOK    == 0
EFILNF == -33
EPTHNF == -34
ENHNDL == -35
ENMFIL == -49

Absent == -1

\* A register pushed as a word, which the calls read without a sign.
Word(v) == IF v >= 0 THEN v % 65536 ELSE (65536 + v) % 65536

Table == 0 .. MaxFileHandles - 1

\* What is known of a stream that is not open.
Closed == [on |-> 0, pos |-> 0, writes |-> FALSE]

\* A directory has no length of its own.
Disks ==
  {dk \in [HostFiles -> Absent .. MaxLen] : \A h \in Directories : dk[h] <= 0}

FilesInit ==
  /\ fh = [i \in Table |-> [bUsed |-> FALSE, stream |-> NoStream]]
  /\ open = {}
  /\ stream = [f \in Streams |-> Closed]
  /\ disk \in Disks

Exists(h) == disk[h] # Absent

Free == {i \in Table : ~fh[i].bUsed}

\* GemDOS_FindFreeFileHandle.
FirstFree(i) == i \in Free /\ \A j \in Free : i <= j

Handle(w) == w - BASE_FILEHANDLE

\* GemDOS_IsInvalidFileHandle.
IsInvalid(i) == i \notin Table \/ ~fh[i].bUsed

\* fopen succeeds and the entry is taken, or fails and the entry is free
\* with a NULL in it.
Opened(i, h, writes) ==
  \E f \in Streams \ open :
    /\ open' = open \cup {f}
    /\ stream' = [stream EXCEPT ![f] = [on |-> h, pos |-> 0, writes |-> writes]]
    /\ fh' = [fh EXCEPT ![i] = [bUsed |-> TRUE, stream |-> f]]
    /\ d0' = i + BASE_FILEHANDLE

NotOpened(i) ==
  /\ fh' = [fh EXCEPT ![i].stream = NoStream]
  /\ d0' = EFILNF
  /\ UNCHANGED <<open, stream, disk>>

\* Mutant: the name is taken as it is, without looking for the file.
ResolveExactly(st) == Own[st]

\* GemDOS_CreateHardDriveFileName: the first file that fits, or the name as
\* it is.
Resolve(st) ==
  IF \E h \in Fits[st] : Exists(h)
  THEN CHOOSE h \in Fits[st] : Exists(h) /\ \A g \in Fits[st] : Exists(g) => h <= g
  ELSE Own[st]

\* GemDOS_Create, with mode 0 as the guest asks: an existing file is cut.
Create(st, refused) ==
  \/ /\ Free = {}
     /\ d0' = ENHNDL
     /\ UNCHANGED fileVars
  \/ \E i \in Table :
       /\ FirstFree(i)
       /\ IF refused \/ Resolve(st) \in Directories
          THEN NotOpened(i)
          ELSE /\ Opened(i, Resolve(st), TRUE)
               /\ disk' = [disk EXCEPT ![Resolve(st)] = 0]

\* GemDOS_Open, with mode 0: for reading.
Open(st, refused) ==
  \/ /\ Free = {}
     /\ d0' = ENHNDL
     /\ UNCHANGED fileVars
  \/ \E i \in Table :
       /\ FirstFree(i)
       /\ IF refused \/ ~Exists(Resolve(st))
          THEN NotOpened(i)
          ELSE /\ Opened(i, Resolve(st), FALSE)
               /\ UNCHANGED disk

\* Mutant: the entry is freed and its stream stays open.
CloseForgets(w, kept, d) ==
  LET i == Handle(w)
  IN IF IsInvalid(i)
     THEN d0' = d /\ UNCHANGED fileVars
     ELSE /\ fh' = [fh EXCEPT ![i].bUsed = FALSE]
          /\ d0' = EOK
          /\ UNCHANGED <<open, stream, disk>>

\* What fclose leaves of a stream's file: what was written reaches the disk
\* now, or only the first kept bytes of it.
Flushed(f, kept) ==
  [disk EXCEPT ![stream[f].on] =
     IF stream[f].writes THEN (IF kept < stream[f].pos THEN kept ELSE stream[f].pos)
     ELSE @]

\* GemDOS_Close: fclose's result is not looked at, and the stream stays in
\* the freed entry.
Close(w, kept, d) ==
  LET i == Handle(w)
  IN IF IsInvalid(i)
     THEN d0' = d /\ UNCHANGED fileVars
     ELSE /\ open' = open \ {fh[i].stream}
          /\ disk' = Flushed(fh[i].stream, kept)
          /\ stream' = [stream EXCEPT ![fh[i].stream] = Closed]
          /\ fh' = [fh EXCEPT ![i].bUsed = FALSE]
          /\ d0' = EOK

Least(a, b) == IF a <= b THEN a ELSE b

\* What fread gets: the size is cut to that of the file, not to what is left.
Got(f, size) ==
  LET len  == disk[stream[f].on]
      left == len - stream[f].pos
  IN IF left <= 0 THEN 0 ELSE Least(Least(size, len), left)

\* GemDOS_Read.
Read(w, size, d) ==
  LET i == Handle(w)
      f == fh[i].stream
  IN IF IsInvalid(i)
     THEN d0' = d /\ UNCHANGED fileVars
     ELSE /\ d0' = Got(f, size)
          /\ stream' = [stream EXCEPT ![f].pos = @ + Got(f, size)]
          /\ UNCHANGED <<fh, open, disk>>

\* GemDOS_Write: the host takes the first taken bytes.
Write(w, taken, d) ==
  LET i == Handle(w)
      f == fh[i].stream
  IN IF IsInvalid(i)
     THEN d0' = d /\ UNCHANGED fileVars
     ELSE /\ d0' = taken
          /\ stream' = [stream EXCEPT ![f].pos = @ + taken]
          /\ UNCHANGED <<fh, open, disk>>

\* GemDOS_UnLink.
UnLink(st, refused) ==
  /\ IF Exists(Resolve(st)) /\ Resolve(st) \notin Directories /\ ~refused
     THEN d0' = EOK /\ disk' = [disk EXCEPT ![Resolve(st)] = Absent]
     ELSE d0' = EFILNF /\ UNCHANGED disk
  /\ UNCHANGED <<fh, open, stream>>

UsedStreams == {fh[i].stream : i \in Table \ Free}

\* Mutant: a cold reset clears the table and closes nothing.
FilesResetForgets ==
  /\ fh' = [i \in Table |-> [bUsed |-> FALSE, stream |-> NoStream]]
  /\ UNCHANGED <<open, stream, disk>>

\* GemDOS_Reset, the file handles.
FilesReset ==
  /\ fh' = [i \in Table |-> [bUsed |-> FALSE, stream |-> NoStream]]
  /\ open' = open \ UsedStreams
  /\ disk' = [h \in HostFiles |->
                IF \E f \in UsedStreams : stream[f].on = h /\ stream[f].writes
                THEN stream[CHOOSE f \in UsedStreams :
                              stream[f].on = h /\ stream[f].writes].pos
                ELSE disk[h]]
  /\ stream' = [f \in Streams |-> IF f \in UsedStreams THEN Closed ELSE stream[f]]

\* Files come, go and grow on the host, while no call is at work on them.
HostChange(h, len) ==
  /\ \A f \in open : stream[f].on # h
  /\ disk[h] # len
  /\ h \in Directories => len <= 0
  /\ disk' = [disk EXCEPT ![h] = len]
  /\ UNCHANGED <<fh, open, stream, d0>>

-----------------------------------------------------------------------------

(***************************************************************************)
(* hostcall.c:303, 591, 638, 671: every stream the program has open is in  *)
(* one used entry of the table, and every used entry has one of its own:   *)
(* none is closed twice and none is left open, whatever order of calls,    *)
(* failures and cold resets there was.                                     *)
(***************************************************************************)
StreamsKept ==
  /\ open = UsedStreams
  /\ \A i, j \in Table \ Free : fh[i].stream = fh[j].stream => i = j
=============================================================================
