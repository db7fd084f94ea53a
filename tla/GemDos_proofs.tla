---------------------------- MODULE GemDos_proofs ----------------------------
(***************************************************************************)
(* For any number of handles, streams, files, searches and entries: the    *)
(* streams the program has open are those of its used entries, one each;   *)
(* the guest keeps no handle over a return to its selector; its listings   *)
(* are what was there; and what it does to files works unless the host     *)
(* refuses.                                                                *)
(*                                                                         *)
(* None of it is inductive alone.  FilesInv says that the stream of a used *)
(* entry is its own, and GuestInv that the one used entry is the one whose *)
(* handle the guest has in its register, as a word: an error code as a     *)
(* word is no handle, which makes the guest's late test of Fopen's result  *)
(* harmless.  ListInv follows a search: its slot's list is the snapshot,   *)
(* still its own, and as far as the listing.  TransferInv follows a        *)
(* transfer: the stream behind the handle is on the file that was meant,   *)
(* at the right place, and the length the guest goes by is the file's.     *)
(***************************************************************************)
EXTENDS GemDos, FiniteSetTheorems, SequenceTheorems, TLAPS

FilesInv ==
  /\ fh \in [Table -> [bUsed : BOOLEAN, stream : Streams \cup {NoStream}]]
  /\ open \subseteq Streams
  /\ StreamsKept

Transfer == {"read", "readDone", "write", "writeDone"}
Places == {"idle", "search", "next", "listed"} \cup Transfer

\* Only the guest's handle, if any, is in use.
GuestInv ==
  /\ pc \in Places
  /\ handle \in Int
  /\ pc \notin Transfer => Free = Table
  /\ \A i \in Table \ Free : i = Handle(handle)

Inv == FilesInv /\ GuestInv

-----------------------------------------------------------------------------
(* What each call does to the table.                                       *)

LEMMA FreePrimed ==
  ASSUME FilesInv, NEW i \in Table, NEW f \in Streams \cup {NoStream}, NEW b \in BOOLEAN,
         fh' = [fh EXCEPT ![i] = [bUsed |-> b, stream |-> f]]
  PROVE  /\ fh' \in [Table -> [bUsed : BOOLEAN, stream : Streams \cup {NoStream}]]
         /\ Free' = IF b THEN Free \ {i} ELSE Free \cup {i}
BY DEF FilesInv, Free

\* An entry taken for a new stream.
LEMMA OpenedKeeps ==
  ASSUME FilesInv, NEW i \in Free, NEW h, NEW w, Opened(i, h, w)
  PROVE  FilesInv' /\ Free' = Free \ {i} /\ d0' = i + BASE_FILEHANDLE
<1>1. i \in Table
  BY DEF Free
<1>2. PICK f \in Streams \ open :
        /\ open' = open \cup {f}
        /\ fh' = [fh EXCEPT ![i] = [bUsed |-> TRUE, stream |-> f]]
        /\ d0' = i + BASE_FILEHANDLE
  BY DEF Opened
<1>3. /\ fh' \in [Table -> [bUsed : BOOLEAN, stream : Streams \cup {NoStream}]]
      /\ Free' = Free \ {i}
  BY <1>1, <1>2, FreePrimed
<1>4. \A j \in Table : fh'[j].stream = IF j = i THEN f ELSE fh[j].stream
  BY <1>1, <1>2 DEF FilesInv
<1>5. Table \ Free' = (Table \ Free) \cup {i}
  BY <1>1, <1>3
<1>6. UsedStreams' = UsedStreams \cup {f}
  BY <1>1, <1>4, <1>5 DEF UsedStreams, Table
<1>7. \A j \in Table \ Free : fh[j].stream # f
  BY <1>2 DEF FilesInv, StreamsKept, UsedStreams
<1>8. \A j, k \in Table \ Free' : fh'[j].stream = fh'[k].stream => j = k
  BY <1>4, <1>5, <1>7 DEF FilesInv, StreamsKept
<1>. QED
  BY <1>2, <1>3, <1>6, <1>8 DEF FilesInv, StreamsKept, Table

\* A failed fopen leaves a NULL in a free entry.
LEMMA NotOpenedKeeps ==
  ASSUME FilesInv, NEW i \in Free, NotOpened(i)
  PROVE  FilesInv' /\ Free' = Free
<1>1. i \in Table /\ ~fh[i].bUsed
  BY DEF Free
<1>2. /\ fh' = [fh EXCEPT ![i].stream = NoStream]
      /\ open' = open
  BY DEF NotOpened
<1>3. fh' \in [Table -> [bUsed : BOOLEAN, stream : Streams \cup {NoStream}]]
  BY <1>1, <1>2 DEF FilesInv
<1>4. \A j \in Table : /\ fh'[j].bUsed = fh[j].bUsed
                       /\ j # i => fh'[j].stream = fh[j].stream
  BY <1>1, <1>2 DEF FilesInv
<1>5. Free' = Free
  BY <1>4 DEF Free, Table
<1>6. \A j \in Table \ Free : fh'[j].stream = fh[j].stream
  BY <1>4
<1>. QED
  BY <1>2, <1>3, <1>5, <1>6 DEF FilesInv, StreamsKept, UsedStreams, Table

\* An entry given back.
LEMMA CloseKeeps ==
  ASSUME FilesInv, NEW w, NEW kept, NEW d, Close(w, kept, d)
  PROVE  /\ FilesInv'
         /\ Table \ Free' = (Table \ Free) \ {Handle(w)}
<1>. DEFINE i == Handle(w)
<1>1. CASE IsInvalid(i)
  <2>1. fh' = fh /\ open' = open
    BY <1>1 DEF Close, fileVars
  <2>2. i \notin Table \ Free
    BY <1>1 DEF IsInvalid, Free
  <2>. QED
    BY <2>1, <2>2 DEF FilesInv, StreamsKept, UsedStreams, Free, Table
<1>2. CASE ~IsInvalid(i)
  <2>1. i \in Table /\ fh[i].bUsed
    BY <1>2 DEF IsInvalid
  <2>2. /\ open' = open \ {fh[i].stream}
        /\ fh' = [fh EXCEPT ![i].bUsed = FALSE]
    BY <1>2 DEF Close
  <2>3. fh' \in [Table -> [bUsed : BOOLEAN, stream : Streams \cup {NoStream}]]
    BY <2>1, <2>2 DEF FilesInv
  <2>4. \A j \in Table : /\ fh'[j].stream = fh[j].stream
                         /\ fh'[j].bUsed = (j # i /\ fh[j].bUsed)
    BY <2>1, <2>2 DEF FilesInv
  <2>5. Table \ Free' = (Table \ Free) \ {i}
    BY <2>4 DEF Free, Table
  <2>6. i \in Table \ Free
    BY <2>1 DEF Free
  <2>7. UsedStreams' = UsedStreams \ {fh[i].stream}
    BY <2>4, <2>5, <2>6 DEF UsedStreams, FilesInv, StreamsKept, Table
  <2>. QED
    BY <2>2, <2>3, <2>4, <2>5, <2>7 DEF FilesInv, StreamsKept, Table
<1>. QED
  BY <1>1, <1>2

\* A cold reset empties the table.
LEMMA FilesResetKeeps ==
  ASSUME FilesInv, FilesReset
  PROVE  FilesInv' /\ Free' = Table
<1>1. /\ fh' = [i \in Table |-> [bUsed |-> FALSE, stream |-> NoStream]]
      /\ open' = open \ UsedStreams
  BY DEF FilesReset
<1>2. fh' \in [Table -> [bUsed : BOOLEAN, stream : Streams \cup {NoStream}]]
  BY <1>1
<1>3. \A j \in Table : ~fh'[j].bUsed
  BY <1>1
<1>4. Free' = Table
  BY <1>3 DEF Free, Table
<1>5. open' = {} /\ UsedStreams' = {}
  BY <1>1, <1>4 DEF FilesInv, StreamsKept, UsedStreams, Table
<1>. QED
  BY <1>2, <1>4, <1>5 DEF FilesInv, StreamsKept, Table

LEMMA UnchangedKeeps ==
  ASSUME FilesInv, UNCHANGED <<fh, open>>
  PROVE  FilesInv' /\ Free' = Free
BY DEF FilesInv, StreamsKept, UsedStreams, Free, Table

LEMMA Remainder ==
  ASSUME NEW v \in Int, 0 <= v, v < 65536
  PROVE  v % 65536 = v
OBVIOUS

\* The word of a handle is the handle; that of an error is none.
LEMMA Words ==
  /\ \A i \in Table : Handle(Word(i + BASE_FILEHANDLE)) = i
  /\ \A i \in Table : Word(i + BASE_FILEHANDLE) < 32768
  /\ Word(EFILNF) = 65503 /\ Word(ENHNDL) = 65501
<1>1. ASSUME NEW v \in Int, 0 <= v, v < 65536
      PROVE  Word(v) = v
  <2>1. v % 65536 = v
    BY <1>1, Remainder
  <2>. QED
    BY <1>1, <2>1 DEF Word
<1>2. \A i \in Table : i \in Int /\ i + BASE_FILEHANDLE \in 0 .. 255
  BY FilesAssumption DEF Table, BASE_FILEHANDLE
<1>3. Word(EFILNF) = 65503 /\ Word(ENHNDL) = 65501
  BY DEF Word, EFILNF, ENHNDL
<1>4. \A i \in Table : Word(i + BASE_FILEHANDLE) = i + BASE_FILEHANDLE
  BY <1>1, <1>2
<1>. QED
  BY <1>2, <1>3, <1>4 DEF Handle, BASE_FILEHANDLE

LEMMA ErrorIsNoHandle ==
  Handle(Word(EFILNF)) \notin Table /\ Handle(Word(ENHNDL)) \notin Table
BY Words, FilesAssumption DEF Handle, Table, BASE_FILEHANDLE

\* What a call that opens leaves: a handle in D0 and one more used entry, or
\* an error and the table as it was.
LEMMA OpeningKeeps ==
  ASSUME FilesInv, NEW st, NEW refused, Open(st, refused) \/ Create(st, refused)
  PROVE  /\ FilesInv'
         /\ \/ d0' \in {EFILNF, ENHNDL} /\ Free' = Free
            \/ \E i \in Free : d0' = i + BASE_FILEHANDLE /\ Free' = Free \ {i}
<1>1. CASE d0' = ENHNDL /\ UNCHANGED fileVars
  BY <1>1, UnchangedKeeps DEF fileVars
<1>2. ASSUME NEW i \in Table, FirstFree(i), NotOpened(i)
      PROVE  FilesInv' /\ Free' = Free /\ d0' = EFILNF
  <2>1. i \in Free
    BY <1>2 DEF FirstFree
  <2>. QED
    BY <1>2, <2>1, NotOpenedKeeps DEF NotOpened
<1>3. ASSUME NEW i \in Table, NEW h, NEW w, FirstFree(i), Opened(i, h, w)
      PROVE  FilesInv' /\ i \in Free /\ d0' = i + BASE_FILEHANDLE /\ Free' = Free \ {i}
  <2>1. i \in Free
    BY <1>3 DEF FirstFree
  <2>. QED
    BY <1>3, <2>1, OpenedKeeps
<1>4. CASE Open(st, refused)
  BY <1>1, <1>2, <1>3, <1>4 DEF Open
<1>5. CASE Create(st, refused)
  BY <1>1, <1>2, <1>3, <1>5 DEF Create
<1>. QED
  BY <1>4, <1>5
-----------------------------------------------------------------------------
(* The searches and what is listed.                                        *)

Lists == [files : Seq(HostFiles), freed : BOOLEAN]

Founds == Lists \cup {NoList}

SlotType == [bUsed : BOOLEAN, nentries : Int, centry : Nat, found : Founds]

EntryType == [file : HostFiles, len : Nat]

\* Lengths are lengths, and what is open is open on a file.
DiskInv ==
  /\ disk \in [HostFiles -> Nat \cup {Absent}]
  /\ stream \in [Streams -> [on : HostFiles \cup {0}, pos : Nat, writes : BOOLEAN]]
  /\ \A f \in open : stream[f].on \in HostFiles

\* The searches' part of the type.
SearchType ==
  /\ slots \in [Slots -> SlotType]
  /\ index \in Slots
  /\ dta \in [magic : BOOLEAN, index : Slots, name : HostFiles \cup {0}, size : Nat]

\* The search at work: its list is the snapshot, and it is not past its end.
Searching ==
  /\ dta.magic
  /\ dta.name \in HostFiles
  /\ LET s == slots[dta.index]
     IN /\ s.bUsed /\ s.found # NoList
        /\ s.found.files = snapshot /\ ~s.found.freed
        /\ s.nentries = Len(snapshot)
        /\ s.centry <= Len(snapshot)
        /\ ~disturbed => s.centry = Len(listing)
  /\ ~disturbed => \A i \in 1 .. Len(snapshot) : Exists(snapshot[i])
  /\ listing # << >>
  /\ Room(Len(listing))

\* What is listed is there, and is what was there.
Listed ==
  /\ Len(listing) <= Len(snapshot)
  /\ \A i \in 1 .. Len(listing) :
       /\ listing[i].file = snapshot[i]
       /\ disk[listing[i].file] = listing[i].len

ListInv ==
  /\ SearchType
  /\ listing \in Seq(EntryType)
  /\ snapshot \in Seq(HostFiles)
  /\ ListsOwned
  /\ pc = "search" => d0 = ParentType /\ listing = << >>
  /\ pc = "next" => Searching
  /\ pc \in {"next", "listed"} /\ ~disturbed => Listed
  /\ pc = "listed" /\ ~disturbed => Len(listing) = Shown

\* The guest's handle is that of a stream on h at position p.
At(h, p, w) ==
  /\ Handle(handle) \in Table \ Free
  /\ h \in HostFiles
  /\ stream[fh[Handle(handle)].stream] = [on |-> h, pos |-> p, writes |-> w]

Meant == Resolve(StName[chosen])

TransferInv ==
  /\ size \in Nat
  /\ pc \in Transfer => chosen \in HostFiles
  /\ report # "none" => pc = "idle"
  /\ pc \in {"read", "readDone"} =>
       \A i \in Table \ Free : ~stream[fh[i].stream].writes
  /\ pc = "read" => disturbed \/ Misnamed \/ (At(chosen, 0, FALSE) /\ disk[chosen] = size)
  /\ pc = "readDone" => complete \/ disturbed \/ Misnamed
  /\ pc = "write" => disturbed \/ (At(Meant, 0, TRUE) /\ Exists(Meant))
  /\ pc = "writeDone" =>
       disturbed \/ (complete /\ At(Meant, size, TRUE) /\ Exists(Meant))
  /\ NothingFails
  /\ SaveIsKept

-----------------------------------------------------------------------------
(* Directories in order, and names.                                        *)

\* A finite set of numbers can be listed in order: each at the place that
\* says how many are not above it.
LEMMA InOrder ==
  ASSUME NEW S, IsFiniteSet(S), S \subseteq Nat
  PROVE  \E s \in [1 .. Cardinality(S) -> S] :
           /\ \A i, j \in 1 .. Cardinality(S) : i < j => s[i] < s[j]
           /\ \A x \in S : \E i \in 1 .. Cardinality(S) : s[i] = x
<1>. DEFINE n == Cardinality(S)
            UpTo(x) == {y \in S : y <= x}
            rank == [x \in S |-> Cardinality(UpTo(x))]
            s == [i \in 1 .. n |-> CHOOSE x \in S : rank[x] = i]
<1>1. n \in Nat
  BY FS_CardinalityType
<1>2. ASSUME NEW x \in S
      PROVE  IsFiniteSet(UpTo(x)) /\ Cardinality(UpTo(x)) \in 1 .. n
  <2>1. UpTo(x) \in SUBSET S /\ UpTo(x) # {}
    BY <1>2
  <2>2. IsFiniteSet(UpTo(x)) /\ Cardinality(UpTo(x)) <= n
    BY <2>1, FS_Subset
  <2>3. Cardinality(UpTo(x)) \in Nat /\ Cardinality(UpTo(x)) # 0
    BY <2>1, <2>2, FS_CardinalityType, FS_EmptySet
  <2>. QED
    BY <1>1, <2>2, <2>3
<1>3. ASSUME NEW x \in S, NEW y \in S, x < y
      PROVE  Cardinality(UpTo(x)) < Cardinality(UpTo(y))
  <2>1. UpTo(x) \in SUBSET UpTo(y) /\ y \in UpTo(y) /\ y \notin UpTo(x)
    <3>1. x \in Nat /\ y \in Nat
      BY <1>3
    <3>2. \A z \in S : z <= x => z <= y
      BY <1>3, <3>1
    <3>3. y <= y /\ ~(y <= x)
      BY <1>3, <3>1
    <3>. QED
      BY <3>2, <3>3
  <2>2. /\ Cardinality(UpTo(x)) <= Cardinality(UpTo(y))
        /\ Cardinality(UpTo(y)) # Cardinality(UpTo(x))
    BY <1>2, <2>1, FS_Subset
  <2>. QED
    BY <1>1, <1>2, <2>2
<1>4. rank \in [S -> 1 .. n]
  BY <1>2
<1>5. \A x, y \in S : x < y => rank[x] < rank[y]
  BY <1>3
<1>. HIDE DEF rank, n
<1>6. \A x, y \in S : rank[x] = rank[y] => x = y
  BY <1>1, <1>4, <1>5
<1>7. rank \in Injection(S, 1 .. n)
  BY <1>4, <1>6 DEF Injection, IsInjective
<1>8. IsFiniteSet(1 .. n) /\ Cardinality(1 .. n) = n
  BY <1>1, FS_Interval
<1>9. rank \in Surjection(S, 1 .. n)
  BY <1>7, <1>8, FS_Injection DEF n
<1>10. \A i \in 1 .. n : \E x \in S : rank[x] = i
  BY <1>9 DEF Surjection
<1>11. \A i \in 1 .. n : s[i] \in S /\ rank[s[i]] = i
  BY <1>10
<1>12. s \in [1 .. n -> S]
  BY <1>11
<1>. HIDE DEF s
<1>13. \A i, j \in 1 .. n : i < j => s[i] < s[j]
  <2>. SUFFICES ASSUME NEW i \in 1 .. n, NEW j \in 1 .. n, i < j, ~(s[i] < s[j])
                PROVE  FALSE
    OBVIOUS
  <2>1. s[i] \in S /\ s[j] \in S /\ s[i] \in Nat /\ s[j] \in Nat
    BY <1>11
  <2>2. s[i] = s[j] \/ s[j] < s[i]
    BY <2>1
  <2>3. i = j \/ j < i
    BY <1>5, <1>11, <2>1, <2>2
  <2>. QED
    BY <2>3
<1>14. \A x \in S : rank[x] \in 1 .. n /\ s[rank[x]] = x
  BY <1>4, <1>6, <1>11
<1>. QED
  BY <1>12, <1>13, <1>14 DEF n

LEMMA MatchingIs ==
  /\ Matching \in Seq(HostFiles)
  /\ Len(Matching) = Cardinality(Present)
  /\ \A i \in 1 .. Len(Matching) : Exists(Matching[i])
  /\ Present = {} <=> Len(Matching) = 0
<1>1. IsFiniteSet(Present) /\ Present \subseteq Nat /\ Present \subseteq HostFiles
  BY FilesAssumption, SearchAssumption, FS_Subset DEF Present
<1>. DEFINE n == Cardinality(Present)
            Sorted(s) == \A i, j \in DOMAIN s : i < j => s[i] < s[j]
<1>2. \E s \in [1 .. n -> Present] : Sorted(s)
  BY <1>1, InOrder
<1>3. Matching = CHOOSE s \in [1 .. n -> Present] : Sorted(s)
  BY DEF Matching
<1>4. n \in Nat /\ (n = 0 <=> Present = {})
  BY <1>1, FS_CardinalityType, FS_EmptySet
<1>. HIDE DEF Sorted, n
<1>5. Matching \in [1 .. n -> Present]
  BY <1>2, <1>3
<1>6. Matching \in Seq(Present) /\ Len(Matching) = n
  BY <1>4, <1>5
<1>7. \A i \in 1 .. n : Matching[i] \in Present
  BY <1>5
<1>8. Matching \in Seq(HostFiles)
  BY <1>1, <1>6, SeqMonotonic
<1>. QED
  BY <1>4, <1>6, <1>7, <1>8 DEF Present, n

\* The first of the files that fit a name.
LEMMA ResolveIs ==
  ASSUME NEW st \in StNames
  PROVE  /\ Resolve(st) \in Fits[st] /\ Resolve(st) \in HostFiles
         /\ (\E h \in Fits[st] : Exists(h)) =>
              /\ Exists(Resolve(st))
              /\ \A g \in Fits[st] : Exists(g) => Resolve(st) <= g
         /\ ~(\E h \in Fits[st] : Exists(h)) => Resolve(st) = Own[st]
<1>1. Fits[st] \subseteq HostFiles /\ HostFiles \subseteq Nat /\ Own[st] \in Fits[st]
  BY FilesAssumption
<1>. DEFINE S == {h \in Fits[st] : Exists(h)}
            First(h) == Exists(h) /\ \A g \in Fits[st] : Exists(g) => h <= g
<1>2. CASE S = {}
  BY <1>1, <1>2 DEF Resolve
<1>3. CASE S # {}
  <2>1. IsFiniteSet(S) /\ S \subseteq Nat
    BY <1>1, SearchAssumption, FS_Subset
  <2>2. PICK s \in [1 .. Cardinality(S) -> S] :
          /\ \A i, j \in 1 .. Cardinality(S) : i < j => s[i] < s[j]
          /\ \A x \in S : \E i \in 1 .. Cardinality(S) : s[i] = x
    BY <2>1, InOrder
  <2>3. Cardinality(S) \in Nat
    BY <2>1, FS_CardinalityType
  <2>4. 1 \in 1 .. Cardinality(S)
    BY <1>3, <2>2, <2>3
  <2>5. s[1] \in S /\ \A x \in S : s[1] <= x
    <3>1. s[1] \in S
      BY <2>2, <2>4
    <3>2. ASSUME NEW x \in S PROVE s[1] <= x
      <4>1. PICK i \in 1 .. Cardinality(S) : s[i] = x
        BY <2>2
      <4>2. i = 1 \/ 1 < i
        BY <2>3
      <4>. QED
        BY <2>1, <2>2, <2>4, <3>1, <4>1, <4>2
    <3>. QED
      BY <3>1, <3>2
  <2>6. s[1] \in Fits[st] /\ First(s[1])
    BY <2>5
  <2>7. Resolve(st) = CHOOSE h \in Fits[st] : First(h)
    BY <1>3 DEF Resolve
  <2>. HIDE DEF First
  <2>8. Resolve(st) \in Fits[st] /\ First(Resolve(st))
    BY <2>6, <2>7
  <2>. QED
    BY <1>1, <1>3, <2>8 DEF First
<1>. QED
  BY <1>2, <1>3

LEMMA WordsOfErrors ==
  /\ Word(0) = 0 /\ Word(2) = 2 /\ Word(4) = 4
  /\ Word(EPTHNF) # 0 /\ Word(EFILNF) # 0 /\ Word(ENMFIL) # 0
BY DEF Word, EPTHNF, EFILNF, ENMFIL

-----------------------------------------------------------------------------
(* What the calls do to the files.                                         *)

LEMMA UsedIsOpen ==
  ASSUME FilesInv, NEW i \in Table \ Free
  PROVE  fh[i].stream \in open /\ fh[i].stream \in Streams
BY DEF FilesInv, StreamsKept, UsedStreams

LEMMA OpenedDisk ==
  ASSUME FilesInv, DiskInv, NEW i, NEW h \in HostFiles, NEW w \in BOOLEAN, Opened(i, h, w)
  PROVE  /\ stream' \in [Streams -> [on : HostFiles \cup {0}, pos : Nat, writes : BOOLEAN]]
         /\ \A f \in open' : stream'[f].on \in HostFiles
<1>1. PICK f \in Streams \ open :
        /\ open' = open \cup {f}
        /\ stream' = [stream EXCEPT ![f] = [on |-> h, pos |-> 0, writes |-> w]]
  BY DEF Opened
<1>. QED
  BY <1>1 DEF DiskInv, FilesInv

LEMMA OpeningDisk ==
  ASSUME FilesInv, DiskInv, NEW st \in StNames, NEW refused,
         Open(st, refused) \/ Create(st, refused)
  PROVE  DiskInv'
<1>1. Resolve(st) \in HostFiles
  BY ResolveIs
<1>2. CASE UNCHANGED <<stream, disk, open>>
  BY <1>2 DEF DiskInv
<1>3. ASSUME NEW i, NEW w \in BOOLEAN, Opened(i, Resolve(st), w),
             disk' = disk \/ disk' = [disk EXCEPT ![Resolve(st)] = 0]
      PROVE  DiskInv'
  <2>1. disk' \in [HostFiles -> Nat \cup {Absent}]
    BY <1>1, <1>3 DEF DiskInv
  <2>2. /\ stream' \in [Streams -> [on : HostFiles \cup {0}, pos : Nat, writes : BOOLEAN]]
        /\ \A f \in open' : stream'[f].on \in HostFiles
    BY <1>1, <1>3, OpenedDisk
  <2>. QED
    BY <2>1, <2>2 DEF DiskInv
<1>4. CASE Open(st, refused)
  <2>1. \/ UNCHANGED <<stream, disk, open>>
        \/ \E i \in Table : Opened(i, Resolve(st), FALSE) /\ UNCHANGED disk
    BY <1>4 DEF Open, NotOpened, fileVars
  <2>. QED
    BY <1>2, <1>3, <2>1
<1>5. CASE Create(st, refused)
  <2>1. \/ UNCHANGED <<stream, disk, open>>
        \/ \E i \in Table : /\ Opened(i, Resolve(st), TRUE)
                            /\ disk' = [disk EXCEPT ![Resolve(st)] = 0]
    BY <1>5 DEF Create, NotOpened, fileVars
  <2>. QED
    BY <1>2, <1>3, <2>1
<1>. QED
  BY <1>4, <1>5

\* What is read is a number of bytes, and all of a file at its beginning.
LEMMA GotIs ==
  ASSUME DiskInv, NEW f \in open, f \in Streams, NEW n \in Nat
  PROVE  /\ Got(f, n) \in Nat
         /\ stream[f].pos = 0 /\ disk[stream[f].on] = n => Got(f, n) = n
<1>1. /\ stream[f].pos \in Nat /\ stream[f].on \in HostFiles
      /\ disk[stream[f].on] \in Nat \cup {-1}
  BY DEF DiskInv, Absent
<1>. DEFINE p == stream[f].pos
            len == disk[stream[f].on]
<1>2. Got(f, n) = IF len - p <= 0 THEN 0 ELSE Least(Least(n, len), len - p)
  BY DEF Got
<1>3. p \in Nat /\ len \in Nat \cup {-1}
  BY <1>1
<1>. HIDE DEF p, len
<1>4. Got(f, n) \in Nat /\ (p = 0 /\ len = n => Got(f, n) = n)
  BY <1>2, <1>3 DEF Least
<1>. QED
  BY <1>4 DEF p, len

LEMMA ReadDisk ==
  ASSUME FilesInv, DiskInv, NEW w, NEW n \in Nat, NEW d, Read(w, n, d)
  PROVE  DiskInv' /\ disk' = disk
<1>. DEFINE f == fh[Handle(w)].stream
<1>1. CASE IsInvalid(Handle(w))
  BY <1>1 DEF Read, fileVars, DiskInv
<1>2. CASE ~IsInvalid(Handle(w))
  <2>1. f \in open /\ f \in Streams
    BY <1>2, UsedIsOpen DEF IsInvalid, Free
  <2>. DEFINE taken == Got(f, n)
  <2>2. taken \in Nat
    BY <2>1, GotIs
  <2>3. /\ stream' = [stream EXCEPT ![f].pos = @ + taken]
        /\ UNCHANGED <<fh, open, disk>>
    BY <1>2 DEF Read
  <2>. HIDE DEF taken, f
  <2>4. stream' \in [Streams -> [on : HostFiles \cup {0}, pos : Nat, writes : BOOLEAN]]
    BY <2>1, <2>2, <2>3 DEF DiskInv
  <2>5. \A g \in Streams : stream'[g].on = stream[g].on
    BY <2>1, <2>2, <2>3 DEF DiskInv
  <2>6. open \subseteq Streams
    BY DEF FilesInv
  <2>. QED
    BY <2>3, <2>4, <2>5, <2>6 DEF DiskInv
<1>. QED
  BY <1>1, <1>2

LEMMA WriteDisk ==
  ASSUME FilesInv, DiskInv, NEW w, NEW taken \in Nat, NEW d, Write(w, taken, d)
  PROVE  DiskInv' /\ disk' = disk
<1>. DEFINE f == fh[Handle(w)].stream
<1>1. CASE IsInvalid(Handle(w))
  BY <1>1 DEF Write, fileVars, DiskInv
<1>2. CASE ~IsInvalid(Handle(w))
  <2>1. f \in open /\ f \in Streams
    BY <1>2, UsedIsOpen DEF IsInvalid, Free
  <2>3. /\ stream' = [stream EXCEPT ![f].pos = @ + taken]
        /\ UNCHANGED <<fh, open, disk>>
    BY <1>2 DEF Write
  <2>. QED
    BY <2>1, <2>3 DEF DiskInv
<1>. QED
  BY <1>1, <1>2

\* A stream that does not write leaves its file alone when it is closed.
LEMMA CloseDisk ==
  ASSUME FilesInv, DiskInv, NEW w, NEW kept \in Nat, NEW d, Close(w, kept, d)
  PROVE  /\ DiskInv'
         /\ (\A i \in Table \ Free : ~stream[fh[i].stream].writes) => disk' = disk
<1>. DEFINE f == fh[Handle(w)].stream
            left == IF kept < stream[f].pos THEN kept ELSE stream[f].pos
<1>1. CASE IsInvalid(Handle(w))
  BY <1>1 DEF Close, fileVars, DiskInv
<1>2. CASE ~IsInvalid(Handle(w))
  <2>1. f \in open /\ f \in Streams /\ Handle(w) \in Table \ Free
    BY <1>2, UsedIsOpen DEF IsInvalid, Free
  <2>2. /\ open' = open \ {f}
        /\ disk' = [disk EXCEPT ![stream[f].on] = IF stream[f].writes THEN left ELSE @]
        /\ stream' = [stream EXCEPT ![f] = Closed]
    BY <1>2 DEF Close, Flushed
  <2>3. left \in Nat /\ stream[f].on \in HostFiles
    BY <2>1 DEF DiskInv
  <2>. HIDE DEF left
  <2>4. disk' \in [HostFiles -> Nat \cup {Absent}]
    BY <2>2, <2>3 DEF DiskInv
  <2>5. stream' \in [Streams -> [on : HostFiles \cup {0}, pos : Nat, writes : BOOLEAN]]
    BY <2>1, <2>2 DEF DiskInv, Closed
  <2>6. \A g \in open' : stream'[g].on \in HostFiles
    BY <2>1, <2>2 DEF DiskInv, FilesInv
  <2>7. ~stream[f].writes => disk' = disk
    BY <2>2, <2>3 DEF DiskInv
  <2>. QED
    BY <2>1, <2>4, <2>5, <2>6, <2>7 DEF DiskInv
<1>. QED
  BY <1>1, <1>2

LEMMA ResetDisk ==
  ASSUME FilesInv, DiskInv, FilesReset
  PROVE  DiskInv'
<1>1. UsedStreams \subseteq Streams /\ open' = {}
  BY DEF FilesReset, FilesInv, StreamsKept
<1>2. disk' \in [HostFiles -> Nat \cup {Absent}]
  <2>. DEFINE On(h, f) == stream[f].on = h /\ stream[f].writes
  <2>1. disk' = [h \in HostFiles |->
                   IF \E f \in UsedStreams : On(h, f)
                   THEN stream[CHOOSE f \in UsedStreams : On(h, f)].pos
                   ELSE disk[h]]
    BY DEF FilesReset
  <2>2. ASSUME NEW h \in HostFiles, \E f \in UsedStreams : On(h, f)
        PROVE  (CHOOSE f \in UsedStreams : On(h, f)) \in Streams
    <3>. HIDE DEF On
    <3>. QED
      BY <1>1, <2>2
  <2>. HIDE DEF On
  <2>3. \A f \in Streams : stream[f].pos \in Nat
    BY DEF DiskInv
  <2>. QED
    BY <2>1, <2>2, <2>3 DEF DiskInv
<1>3. stream' \in [Streams -> [on : HostFiles \cup {0}, pos : Nat, writes : BOOLEAN]]
  BY DEF FilesReset, DiskInv, Closed
<1>. QED
  BY <1>1, <1>2, <1>3 DEF DiskInv

LEMMA DiskNext == FilesInv /\ DiskInv /\ size \in Nat /\ listing \in Seq(EntryType)
                    /\ [Next]_vars => DiskInv'
<1>. SUFFICES ASSUME FilesInv, DiskInv, size \in Nat, listing \in Seq(EntryType), [Next]_vars
              PROVE  DiskInv'
  OBVIOUS
<1>1. CASE UNCHANGED <<stream, disk, open>>
  BY <1>1 DEF DiskInv
<1>2. ASSUME NEW i \in DOMAIN listing, NEW refused \in BOOLEAN,
             Fopen(listing[i], refused) \/ Fdelete(listing[i], refused)
      PROVE  DiskInv'
  <2>1. StName[listing[i].file] \in StNames
    <3>1. listing[i] \in EntryType
      BY <1>2
    <3>2. listing[i].file \in HostFiles
      BY <3>1 DEF EntryType
    <3>. QED
      BY <3>2, FilesAssumption
  <2>2. CASE Fopen(listing[i], refused)
    BY <2>1, <2>2, OpeningDisk DEF Fopen
  <2>3. CASE Fdelete(listing[i], refused)
    <3>1. /\ UNCHANGED <<fh, open, stream>>
          /\ disk' = disk \/ disk' = [disk EXCEPT ![Resolve(StName[listing[i].file])] = Absent]
      BY <2>3 DEF Fdelete, UnLink
    <3>. QED
      BY <2>1, <3>1, ResolveIs DEF DiskInv
  <2>. QED
    BY <1>2, <2>2, <2>3
<1>3. ASSUME NEW st \in StNames, NEW len \in 0 .. MaxLen, NEW refused \in BOOLEAN,
             Fcreate(st, len, refused)
      PROVE  DiskInv'
  BY <1>3, OpeningDisk DEF Fcreate
<1>4. CASE Fread
  BY <1>4, ReadDisk DEF Fread
<1>5. ASSUME NEW taken \in 0 .. MaxLen, Fwrite(taken) PROVE DiskInv'
  BY <1>5, WriteDisk, FilesAssumption DEF Fwrite
<1>6. ASSUME NEW kept \in 0 .. MaxLen, Fclose(kept) PROVE DiskInv'
  BY <1>6, CloseDisk, FilesAssumption DEF Fclose
<1>7. CASE ColdReset
  BY <1>7, ResetDisk DEF ColdReset
<1>8. ASSUME NEW h \in HostFiles, NEW len \in Absent .. MaxLen, Disturb(h, len) PROVE DiskInv'
  <2>1. len \in Nat \cup {Absent}
    BY <1>8, FilesAssumption DEF Absent
  <2>. QED
    BY <1>8, <2>1 DEF Disturb, HostChange, DiskInv
<1>. QED
  BY <1>1, <1>2, <1>3, <1>4, <1>5, <1>6, <1>7, <1>8
     DEF Next, Fsetdta, Fsfirst, Fsnext, vars, fileVars


-----------------------------------------------------------------------------
(* The listing.                                                            *)

DtaType == [magic : BOOLEAN, index : Slots, name : HostFiles \cup {0}, size : Nat]

\* Steps after which no listing is looked at.
LEMMA QuietList ==
  ASSUME ListInv, UNCHANGED searchVars,
         \/ UNCHANGED <<listing, snapshot>>
         \/ Forget,
         pc' \notin {"search", "next", "listed"}
  PROVE  ListInv'
<1>1. listing' \in Seq(EntryType) /\ snapshot' \in Seq(HostFiles)
  <2>1. CASE UNCHANGED <<listing, snapshot>>
    BY <2>1 DEF ListInv
  <2>2. CASE Forget
    BY <2>2 DEF Forget
  <2>. QED
    BY <2>1, <2>2
<1>2. SearchType' /\ ListsOwned'
  BY DEF ListInv, SearchType, ListsOwned, searchVars, SlotType, Lists
<1>. QED
  BY <1>1, <1>2 DEF ListInv

LEMMA DisturbList ==
  ASSUME ListInv, UNCHANGED <<searchVars, guestVars, d0>>, disturbed'
  PROVE  ListInv'
<1>1. SearchType' /\ ListsOwned' /\ listing' \in Seq(EntryType) /\ snapshot' \in Seq(HostFiles)
  BY DEF ListInv, SearchType, ListsOwned, searchVars, guestVars
<1>2. pc = "next" => Searching'
  BY DEF ListInv, Searching, searchVars, guestVars, Room
<1>. QED
  BY <1>1, <1>2 DEF ListInv, guestVars

LEMMA FsetdtaList ==
  ASSUME ListInv, Fsetdta
  PROVE  ListInv'
<1>1. 0 \in Slots
  BY SearchAssumption DEF Slots
<1>2. dta' \in DtaType
  BY <1>1 DEF Fsetdta, SetDTA, NoDta, DtaType
<1>3. SearchType' /\ ListsOwned'
  BY <1>2 DEF ListInv, SearchType, ListsOwned, Fsetdta, SetDTA, DtaType
<1>. QED
  BY <1>3 DEF ListInv, Fsetdta, SetDTA, Forget

LEMMA ResetList ==
  ASSUME ListInv, ColdReset
  PROVE  ListInv'
<1>1. 0 \in Slots
  BY SearchAssumption DEF Slots
<1>2. dta' \in DtaType /\ index' \in Slots
  BY <1>1 DEF ColdReset, SearchReset, NoDta, DtaType
<1>3. slots' = [i \in Slots |-> [slots[i] EXCEPT !.bUsed = FALSE, !.nentries = 0,
                                                 !.found = NoList]]
  BY DEF ColdReset, SearchReset
<1>4. slots' \in [Slots -> SlotType] /\ \A i \in Slots : ~slots'[i].bUsed
  <2>1. \A i \in Slots : slots[i] \in SlotType
    BY DEF ListInv, SearchType
  <2>2. ASSUME NEW t \in SlotType
        PROVE  LET u == [t EXCEPT !.bUsed = FALSE, !.nentries = 0, !.found = NoList]
               IN u \in SlotType /\ ~u.bUsed
    <3>1. NoList \in Founds
      BY DEF Founds
    <3>. DEFINE u == [t EXCEPT !.bUsed = FALSE]
                v == [u EXCEPT !.nentries = 0]
    <3>2. u \in SlotType
      BY <2>2 DEF SlotType
    <3>3. v \in SlotType
      <4>. HIDE DEF u
      <4>. QED
        BY <3>2 DEF SlotType
    <3>4. [v EXCEPT !.found = NoList] \in SlotType
      <4>. HIDE DEF v
      <4>. QED
        BY <3>1, <3>3 DEF SlotType
    <3>5. [t EXCEPT !.bUsed = FALSE, !.nentries = 0, !.found = NoList] \in SlotType
      BY <3>4, Zenon
    <3>6. [t EXCEPT !.bUsed = FALSE, !.nentries = 0, !.found = NoList].bUsed = FALSE
      BY <2>2 DEF SlotType
    <3>. QED
      BY <3>5, <3>6
  <2>. QED
    BY <1>3, <2>1, <2>2
<1>5. SearchType' /\ ListsOwned'
  BY <1>2, <1>4 DEF ListInv, SearchType, ListsOwned, ColdReset, SearchReset, DtaType
<1>. QED
  BY <1>5 DEF ListInv, ColdReset

\* A step on a list that is the search's own: the next entry, if it is
\* there, or the end.
LEMMA AdvanceIs ==
  ASSUME DiskInv, NEW sl \in [Slots -> SlotType], NEW rec \in DtaType, NEW i \in Slots,
         NEW stats \in BOOLEAN, NEW d, NEW files \in Seq(HostFiles),
         sl[i].found = NewList(files), sl[i].nentries = Len(files),
         sl[i].centry <= Len(files),
         Advance(sl, rec, i, stats, d)
  PROVE  LET c == sl[i].centry
             h == files[c + 1]
         IN /\ ~misread => ~misread'
            /\ slots' \in [Slots -> SlotType] /\ dta' \in DtaType
            /\ dta'.magic = rec.magic /\ dta'.index = rec.index
            /\ \/ /\ c = Len(files)
                  /\ slots' = sl
                  /\ d0' = ENMFIL
               \/ /\ c < Len(files)
                  /\ slots' = [sl EXCEPT ![i].centry = @ + 1]
                  /\ h \in HostFiles
                  /\ \/ /\ d0' = EOK /\ Exists(h)
                        /\ dta'.name = h /\ dta'.size = disk[h]
                     \/ /\ d0' = d /\ dta' = rec
                        /\ ~stats \/ ~Exists(h)
<1>. DEFINE s == sl[i]
            c == s.centry
            h == files[c + 1]
<1>1. s \in SlotType /\ c \in Nat /\ Len(files) \in Nat
  BY DEF SlotType
<1>2. NewList(files).files = files /\ ~NewList(files).freed /\ NewList(files) \in Lists
  BY DEF NewList, Lists
<1>3. s.found # NoList
  BY <1>2, SearchAssumption DEF Lists
<1>4. CASE c >= s.nentries
  BY <1>1, <1>4 DEF Advance
<1>5. CASE ~(c >= s.nentries)
  <2>1. c < Len(files) /\ c + 1 \in 1 .. Len(files) /\ h \in HostFiles
    BY <1>1, <1>5
  <2>2. Legal(s)
    BY <1>2, <1>3, <2>1 DEF Legal
  <2>3. /\ slots' = [sl EXCEPT ![i].centry = @ + 1]
        /\ misread' = (misread \/ ~Legal(s))
        /\ \/ /\ stats /\ Exists(h)
              /\ dta' = [rec EXCEPT !.name = h, !.size = disk[h]]
              /\ d0' = EOK
           \/ /\ ~stats \/ ~Exists(h)
              /\ dta' = rec
              /\ d0' = d
    BY <1>2, <1>5, <2>2 DEF Advance
  <2>4. slots' \in [Slots -> SlotType]
    <3>1. [s EXCEPT !.centry = @ + 1] \in SlotType
      BY <1>1 DEF SlotType
    <3>. QED
      BY <2>3, <3>1
  <2>5. Exists(h) => disk[h] \in Nat
    BY <2>1 DEF DiskInv, Exists
  <2>6. dta' \in DtaType /\ dta'.magic = rec.magic /\ dta'.index = rec.index
    BY <2>1, <2>3, <2>5 DEF DtaType
  <2>7. stats /\ Exists(h) => dta'.name = h /\ dta'.size = disk[h]
    BY <2>1, <2>3 DEF DtaType
  <2>8. ~misread => ~misread'
    BY <2>2, <2>3
  <2>. QED
    BY <2>1, <2>3, <2>4, <2>6, <2>7, <2>8
<1>. QED
  BY <1>4, <1>5

LEMMA NextSlotIs == \A i \in Slots : NextSlot(i) \in Slots
<1>. SUFFICES ASSUME NEW i \in Slots PROVE NextSlot(i) \in Slots
  OBVIOUS
<1>1. i + 1 \in Nat /\ MaxDtas \in Nat /\ MaxDtas > 0
  BY SearchAssumption DEF Slots
<1>2. (i + 1) % MaxDtas \in 0 .. MaxDtas - 1
  BY <1>1
<1>. QED
  BY <1>2 DEF NextSlot, Slots

\* A slot that is given to a new search, with what it will have been of.
LEMMA SlotTaken ==
  ASSUME NEW old \in SlotType
  PROVE  LET s == [Cleared(old) EXCEPT !.bUsed = TRUE]
         IN /\ s \in SlotType
            /\ [s EXCEPT !.nentries = -1] \in SlotType
            /\ \A n \in Int : [s EXCEPT !.nentries = n, !.centry = 0] \in SlotType
            /\ \A files \in Seq(HostFiles) :
                 LET t == [s EXCEPT !.nentries = Len(files), !.centry = 0,
                                    !.found = NewList(files)]
                 IN /\ t \in SlotType /\ t.bUsed
                    /\ t.found = NewList(files) /\ t.nentries = Len(files) /\ t.centry = 0
<1>. DEFINE s == [Cleared(old) EXCEPT !.bUsed = TRUE]
<1>1. Cleared(old) \in SlotType
  <2>1. CASE old.bUsed /\ old.found # NoList
    <3>1. old.found \in Lists
      BY <2>1 DEF SlotType, Founds
    <3>2. [old.found EXCEPT !.freed = TRUE] \in Founds
      BY <3>1 DEF Lists, Founds
    <3>3. Cleared(old) = [old EXCEPT !.found = [old.found EXCEPT !.freed = TRUE]]
      BY <2>1 DEF Cleared, SlotType
    <3>. QED
      BY <3>2, <3>3 DEF SlotType
  <2>2. CASE ~(old.bUsed /\ old.found # NoList)
    BY <2>2 DEF Cleared
  <2>. QED
    BY <2>1, <2>2
<1>2. s \in SlotType
  BY <1>1 DEF SlotType
<1>. HIDE DEF s
<1>3. [s EXCEPT !.nentries = -1] \in SlotType
  BY <1>2 DEF SlotType
<1>4. \A n \in Int : [s EXCEPT !.nentries = n, !.centry = 0] \in SlotType
  BY <1>2 DEF SlotType
<1>5. ASSUME NEW files \in Seq(HostFiles)
      PROVE  LET t == [s EXCEPT !.nentries = Len(files), !.centry = 0,
                                !.found = NewList(files)]
             IN /\ t \in SlotType /\ t.bUsed = s.bUsed
                /\ t.found = NewList(files) /\ t.nentries = Len(files) /\ t.centry = 0
  <2>1. NewList(files) \in Founds /\ Len(files) \in Int
    BY <1>5 DEF NewList, Lists, Founds
  <2>. QED
    BY <1>2, <2>1 DEF SlotType
<1>6. s.bUsed
  BY <1>1 DEF s, SlotType
<1>. QED
  BY <1>2, <1>3, <1>4, <1>5, <1>6 DEF s

LEMMA FsfirstList ==
  ASSUME DiskInv, ListInv, NEW r \in Results, NEW stats \in BOOLEAN, Fsfirst(r, stats)
  PROVE  ListInv'
<1>1. /\ pc = "search" /\ d0 = 4 /\ listing = << >>
      /\ SFirst(r, stats, d0)
      /\ IF Word(d0') = 0
         THEN listing' = <<Entry(dta')>> /\ pc' = "next"
         ELSE UNCHANGED listing /\ pc' = "listed"
      /\ snapshot' = Matching
      /\ disturbed' = (disturbed \/ r # "ok" \/ ~stats)
      /\ UNCHANGED fileVars
  BY DEF Fsfirst, ListInv, ParentType
<1>2. /\ slots \in [Slots -> SlotType] /\ index \in Slots /\ dta \in DtaType
      /\ ~misread
      /\ \A i \in Slots \ {index} :
           slots[i].bUsed => slots[i].found # NoList /\ ~slots[i].found.freed
  BY DEF ListInv, SearchType, DtaType, ListsOwned
<1>. DEFINE s == [Cleared(slots[index]) EXCEPT !.bUsed = TRUE]
            rec == [dta EXCEPT !.magic = TRUE, !.index = index]
            new == [s EXCEPT !.nentries = Len(Matching), !.centry = 0,
                             !.found = NewList(Matching)]
            sl == [slots EXCEPT ![index] = new]
            n == Len(Matching)
<1>3. /\ s \in SlotType /\ [s EXCEPT !.nentries = -1] \in SlotType
      /\ Scanned \in Int => [s EXCEPT !.nentries = Scanned, !.centry = 0] \in SlotType
      /\ new \in SlotType /\ new.bUsed
      /\ new.found = NewList(Matching) /\ new.nentries = n /\ new.centry = 0
  <2>1. slots[index] \in SlotType
    BY <1>2
  <2>. QED
    BY <2>1, SlotTaken, MatchingIs
<1>4. rec \in DtaType /\ rec.magic /\ rec.index = index
  BY <1>2 DEF DtaType
<1>5. Scanned \in Int
  BY MatchingIs, FS_CardinalityType, FilesAssumption, SearchAssumption, FS_Subset
     DEF Scanned, Present
<1>6. snapshot' \in Seq(HostFiles) /\ Len(snapshot') \in Nat
  BY <1>1, MatchingIs
<1>7. ASSUME NEW slot \in SlotType, slots' = [slots EXCEPT ![index] = slot],
             dta' = rec, UNCHANGED <<index, misread>>, Word(d0') # 0,
             disturbed' \/ Len(snapshot') = 0
      PROVE  ListInv'
  <2>1. SearchType'
    BY <1>2, <1>4, <1>7 DEF SearchType, DtaType
  <2>2. ListsOwned'
    BY <1>2, <1>7 DEF ListsOwned
  <2>3. listing' = << >> /\ pc' = "listed" /\ Len(listing') = 0 /\ listing' \in Seq(EntryType)
    BY <1>1, <1>7
  <2>4. Len(snapshot') = 0 => Len(listing') = Shown' /\ Listed'
    BY <2>3, GuestAssumption DEF Shown, Listed
  <2>. QED
    BY <1>6, <1>7, <2>1, <2>2, <2>3, <2>4 DEF ListInv
<1>8. CASE r = "nopath"
  BY <1>1, <1>3, <1>7, <1>8, WordsOfErrors DEF SFirst
<1>9. CASE r = "noscan"
  BY <1>1, <1>3, <1>7, <1>9, WordsOfErrors DEF SFirst
<1>10. CASE r = "ok" /\ Present = {}
  <2>1. /\ slots' = [slots EXCEPT ![index] = [s EXCEPT !.nentries = Scanned, !.centry = 0]]
        /\ dta' = rec /\ d0' = d0 /\ UNCHANGED <<index, misread>>
    BY <1>1, <1>10 DEF SFirst
  <2>2. Len(snapshot') = 0 /\ Word(d0') # 0
    BY <1>1, <1>10, <2>1, MatchingIs, WordsOfErrors
  <2>. QED
    BY <1>3, <1>5, <1>7, <2>1, <2>2
<1>11. CASE r = "ok" /\ Present # {}
  <2>1. Advance(sl, rec, index, stats, d0) /\ index' = NextSlot(index)
    BY <1>1, <1>11 DEF SFirst
  <2>2. n > 0 /\ n \in Nat /\ Matching \in Seq(HostFiles)
        /\ \A i \in 1 .. n : Exists(Matching[i])
    BY <1>11, MatchingIs
  <2>3. sl \in [Slots -> SlotType] /\ sl[index] = new
    BY <1>2, <1>3
  <2>. DEFINE h == Matching[1]
  <2>4. /\ misread' = FALSE \/ ~misread'
        /\ slots' \in [Slots -> SlotType] /\ dta' \in DtaType
        /\ dta'.magic /\ dta'.index = index
        /\ slots' = [sl EXCEPT ![index].centry = @ + 1]
        /\ h \in HostFiles
        /\ \/ /\ d0' = 0 /\ Exists(h)
              /\ dta'.name = h /\ dta'.size = disk[h]
           \/ d0' = 4 /\ ~stats
    <3>. HIDE DEF sl, rec, new
    <3>1. sl[index].found = NewList(Matching) /\ sl[index].nentries = Len(Matching)
          /\ sl[index].centry = 0 /\ 0 <= Len(Matching) /\ 0 + 1 = 1 /\ 1 \in 1 .. n
      BY <1>3, <2>2, <2>3
    <3>. QED
      BY <1>1, <1>2, <1>4, <2>1, <2>2, <2>3, <3>1, AdvanceIs DEF EOK
  <2>5. \A i \in Slots : slots'[i] = IF i = index THEN [new EXCEPT !.centry = 1] ELSE slots[i]
    <3>1. slots' = [slots EXCEPT ![index] = [new EXCEPT !.centry = 1]]
      <4>1. sl \in [Slots -> SlotType] /\ sl[index] = new
        BY <2>3
      <4>. HIDE DEF new
      <4>2. slots' = [[slots EXCEPT ![index] = new] EXCEPT ![index].centry = @ + 1]
        BY <2>4
      <4>3. new.centry + 1 = 1
        BY <1>3
      <4>. QED
        BY <1>2, <4>2, <4>3
    <3>. QED
      BY <1>2, <3>1
  <2>6. /\ [new EXCEPT !.centry = 1].bUsed
        /\ [new EXCEPT !.centry = 1].found = NewList(Matching)
        /\ [new EXCEPT !.centry = 1].nentries = n
        /\ [new EXCEPT !.centry = 1].centry = 1
    <3>. HIDE DEF new
    <3>. QED
      BY <1>3 DEF SlotType
  <2>7. NewList(Matching).files = Matching /\ ~NewList(Matching).freed
        /\ NewList(Matching) # NoList
    <3>1. NewList(Matching) \in Lists
      BY <2>2 DEF NewList, Lists
    <3>. QED
      BY <3>1, SearchAssumption DEF NewList, Lists
  <2>. HIDE DEF new
  <2>8. ListsOwned'
    BY <1>2, <2>4, <2>5, <2>6, <2>7 DEF ListsOwned
  <2>9. SearchType'
    BY <1>2, <2>1, <2>4, NextSlotIs DEF SearchType, DtaType
  <2>10. CASE d0' = 0 /\ Exists(h) /\ dta'.name = h /\ dta'.size = disk[h]
    <3>1. /\ pc' = "next" /\ listing' = <<[file |-> h, len |-> disk[h]]>>
          /\ disk[h] \in Nat
      BY <1>1, <2>4, <2>10, WordsOfErrors DEF Entry, DiskInv, Exists
    <3>2. listing' \in Seq(EntryType) /\ Len(listing') = 1 /\ listing' # << >>
      BY <2>4, <3>1 DEF EntryType
    <3>3. Room(1)
      BY GuestAssumption DEF Room
    <3>4. Searching'
      <4>1. /\ slots'[dta'.index].bUsed
            /\ slots'[dta'.index].found = NewList(Matching)
            /\ slots'[dta'.index].nentries = n
            /\ slots'[dta'.index].centry = 1
        BY <1>2, <2>4, <2>5, <2>6
      <4>2. (\A i \in 1 .. Len(snapshot) : Exists(snapshot[i]))'
        BY <1>1, <2>2 DEF Exists, fileVars
      <4>3. dta'.magic /\ dta'.name \in HostFiles /\ 1 <= n /\ Room(Len(listing'))
        BY <2>2, <2>4, <2>10, <3>2, <3>3
      <4>. QED
        BY <1>1, <2>7, <3>2, <4>1, <4>2, <4>3 DEF Searching, Room
    <3>5. Listed'
      BY <1>1, <2>2, <3>1, <3>2 DEF Listed, fileVars
    <3>. QED
      BY <1>6, <2>8, <2>9, <3>1, <3>2, <3>4, <3>5 DEF ListInv
  <2>11. CASE d0' = 4 /\ ~stats
    <3>1. Word(d0') # 0
      BY <2>11, WordsOfErrors
    <3>2. pc' = "listed" /\ listing' = << >> /\ disturbed'
      BY <1>1, <2>11, <3>1
    <3>3. listing' \in Seq(EntryType)
      BY <3>2
    <3>. QED
      BY <1>6, <2>8, <2>9, <3>2, <3>3 DEF ListInv
  <2>. QED
    BY <2>4, <2>10, <2>11
<1>. QED
  BY <1>8, <1>9, <1>10, <1>11 DEF Results

LEMMA FsnextList ==
  ASSUME DiskInv, ListInv, NEW stats \in BOOLEAN, Fsnext(stats)
  PROVE  ListInv'
<1>. DEFINE k == dta.index
            d == TypeOf(listing[Len(listing)].file)
            c == slots[k].centry
            n == Len(snapshot)
            h == snapshot[c + 1]
<1>1. /\ pc = "next" /\ Searching
      /\ SNext(stats, d)
      /\ IF Word(d0') = 0
         THEN /\ listing' = Append(listing, Entry(dta'))
              /\ pc' = IF Room(Len(listing) + 1) THEN "next" ELSE "listed"
         ELSE UNCHANGED listing /\ pc' = "listed"
      /\ disturbed' = (disturbed \/ ~stats)
      /\ UNCHANGED <<fileVars, snapshot>>
  BY DEF Fsnext, ListInv
<1>2. /\ slots \in [Slots -> SlotType] /\ index \in Slots /\ dta \in DtaType
      /\ k \in Slots /\ slots[k] \in SlotType
      /\ ~misread
      /\ \A i \in Slots \ {index} :
           slots[i].bUsed => slots[i].found # NoList /\ ~slots[i].found.freed
  BY DEF ListInv, SearchType, DtaType, ListsOwned
<1>3. /\ snapshot \in Seq(HostFiles) /\ listing \in Seq(EntryType)
      /\ n \in Nat /\ Len(listing) \in Nat
  BY DEF ListInv
<1>4. /\ dta.magic /\ dta.name \in HostFiles
      /\ slots[k].bUsed /\ slots[k].found # NoList
      /\ slots[k].found.files = snapshot /\ ~slots[k].found.freed
      /\ slots[k].nentries = n /\ c <= n
      /\ ~disturbed => c = Len(listing)
      /\ ~disturbed => \A i \in 1 .. n : Exists(snapshot[i])
      /\ listing # << >> /\ Room(Len(listing))
  BY <1>1 DEF Searching
<1>5. /\ Advance(slots, dta, k, stats, d)
      /\ UNCHANGED index
  BY <1>1, <1>4 DEF SNext
<1>6. c \in Nat
  BY <1>2 DEF SlotType
<1>7. slots[k].found = NewList(snapshot)
  <2>1. slots[k].found \in Lists
    BY <1>2, <1>4 DEF SlotType, Founds
  <2>. QED
    BY <1>4, <2>1 DEF Lists, NewList
<1>8. /\ ~misread'
      /\ slots' \in [Slots -> SlotType] /\ dta' \in DtaType
      /\ dta'.magic /\ dta'.index = k
      /\ \/ /\ c = n /\ slots' = slots /\ d0' = ENMFIL
         \/ /\ c < n
            /\ slots' = [slots EXCEPT ![k].centry = @ + 1]
            /\ h \in HostFiles
            /\ \/ /\ d0' = EOK /\ Exists(h)
                  /\ dta'.name = h /\ dta'.size = disk[h]
               \/ /\ d0' = d /\ dta' = dta
                  /\ ~stats \/ ~Exists(h)
  <2>. HIDE DEF d
  <2>. QED
    BY <1>2, <1>3, <1>4, <1>5, <1>7, AdvanceIs
<1>9. SearchType'
  BY <1>2, <1>5, <1>8 DEF SearchType, DtaType
<1>10. CASE c = n /\ slots' = slots /\ d0' = ENMFIL
  <2>1. UNCHANGED listing /\ pc' = "listed"
    BY <1>1, <1>10, WordsOfErrors
  <2>2. ListsOwned'
    BY <1>2, <1>5, <1>8, <1>10 DEF ListsOwned
  <2>3. ~disturbed' => Listed' /\ Len(listing') = Shown'
    <3>1. ~disturbed' => ~disturbed /\ Len(listing) = n /\ n + 1 < MaxEntries /\ Listed
      BY <1>1, <1>4, <1>10 DEF ListInv, Room
    <3>2. MaxEntries \in Nat
      BY GuestAssumption
    <3>3. n + 1 < MaxEntries => n < MaxEntries - 1
      BY <1>3, <3>2
    <3>. QED
      BY <1>1, <2>1, <3>1, <3>3 DEF Shown, Listed, fileVars
  <2>. QED
    BY <1>1, <1>3, <1>9, <2>1, <2>2, <2>3 DEF ListInv
<1>11. CASE /\ c < n
            /\ slots' = [slots EXCEPT ![k].centry = @ + 1]
            /\ h \in HostFiles
            /\ \/ /\ d0' = EOK /\ Exists(h)
                  /\ dta'.name = h /\ dta'.size = disk[h]
               \/ /\ d0' = d /\ dta' = dta
                  /\ ~stats \/ ~Exists(h)
  <2>1. /\ \A i \in Slots : /\ slots'[i].bUsed = slots[i].bUsed
                            /\ slots'[i].found = slots[i].found
                            /\ slots'[i].nentries = slots[i].nentries
        /\ slots'[k].centry = c + 1
    BY <1>2, <1>11 DEF SlotType
  <2>2. ListsOwned'
    BY <1>2, <1>5, <1>8, <2>1 DEF ListsOwned
  <2>3. ~disturbed' => /\ ~disturbed /\ Listed /\ c = Len(listing)
                       /\ d0' = EOK /\ dta'.name = h /\ dta'.size = disk[h]
    <3>1. c + 1 \in 1 .. n
      BY <1>3, <1>6, <1>11
    <3>. QED
      BY <1>1, <1>4, <1>11, <3>1 DEF ListInv
  <2>4. dta'.name \in HostFiles /\ dta'.size \in Nat
    BY <1>4, <1>8, <1>11 DEF DtaType
  <2>5. CASE Word(d0') # 0
    <3>1. disturbed'
      BY <2>3, <2>5, WordsOfErrors DEF EOK
    <3>. QED
      BY <1>1, <1>3, <1>9, <2>2, <2>5, <3>1 DEF ListInv
  <2>6. CASE Word(d0') = 0
    <3>. DEFINE e == Entry(dta')
    <3>1. e \in EntryType /\ e.file = dta'.name /\ e.len = dta'.size
      BY <2>4 DEF Entry, EntryType
    <3>2. listing' = Append(listing, e)
          /\ pc' = IF Room(Len(listing) + 1) THEN "next" ELSE "listed"
      BY <1>1, <2>6
    <3>. HIDE DEF e
    <3>3. /\ listing' \in Seq(EntryType) /\ Len(listing') = Len(listing) + 1
          /\ \A i \in 1 .. Len(listing) : listing'[i] = listing[i]
          /\ listing'[Len(listing) + 1] = e
          /\ listing' # << >>
      BY <1>3, <3>1, <3>2, AppendProperties
    <3>4. ~disturbed' => Listed'
      <4>. SUFFICES ASSUME ~disturbed' PROVE Listed'
        OBVIOUS
      <4>1. Len(listing') <= Len(snapshot')
        BY <1>1, <1>3, <1>11, <2>3, <3>3
      <4>2. ASSUME NEW i \in 1 .. Len(listing')
            PROVE  listing'[i].file = snapshot[i] /\ disk[listing'[i].file] = listing'[i].len
        <5>1. i \in 1 .. Len(listing) \/ i = Len(listing) + 1
          BY <1>3, <3>3
        <5>2. CASE i \in 1 .. Len(listing)
          BY <2>3, <3>3, <5>2 DEF Listed
        <5>3. CASE i = Len(listing) + 1
          BY <2>3, <3>1, <3>3, <5>3
        <5>. QED
          BY <5>1, <5>2, <5>3
      <4>. QED
        BY <1>1, <4>1, <4>2 DEF Listed, fileVars
    <3>5. CASE Room(Len(listing) + 1)
      <4>1. /\ slots'[dta'.index].bUsed
            /\ slots'[dta'.index].found = NewList(snapshot)
            /\ slots'[dta'.index].nentries = n
            /\ slots'[dta'.index].centry = c + 1
            /\ slots'[dta'.index].found # NoList
        BY <1>2, <1>4, <1>7, <1>8, <2>1
      <4>2. c + 1 <= n
        BY <1>3, <1>6, <1>11
      <4>3. ~disturbed' => /\ c + 1 = Len(listing')
                           /\ (\A i \in 1 .. Len(snapshot) : Exists(snapshot[i]))'
        BY <1>1, <1>4, <2>3, <3>3 DEF Exists, fileVars
      <4>4. NewList(snapshot).files = snapshot /\ ~NewList(snapshot).freed
        BY DEF NewList
      <4>5. Room(Len(listing'))
        BY <3>3, <3>5
      <4>6. Searching'
        BY <1>1, <1>8, <2>4, <3>3, <4>1, <4>2, <4>3, <4>4, <4>5 DEF Searching, Room
      <4>. QED
        BY <1>1, <1>3, <1>9, <2>2, <3>2, <3>3, <3>4, <3>5, <4>6 DEF ListInv
    <3>6. CASE ~Room(Len(listing) + 1)
      <4>1. ~disturbed' => Len(listing') = Shown'
        <5>. SUFFICES ASSUME ~disturbed' PROVE Len(listing') = Shown'
          OBVIOUS
        <5>1. MaxEntries \in Nat /\ Len(listing) + 1 < MaxEntries
              /\ ~(Len(listing) + 1 + 1 < MaxEntries)
          BY <1>4, <3>6, GuestAssumption DEF Room
        <5>2. Len(listing) + 1 = MaxEntries - 1
          BY <1>3, <5>1
        <5>3. ~(n < MaxEntries - 1)
          BY <1>3, <1>11, <2>3, <5>1, <5>2
        <5>. QED
          BY <1>1, <3>3, <5>2, <5>3 DEF Shown
      <4>. QED
        BY <1>1, <1>3, <1>9, <2>2, <3>2, <3>3, <3>4, <3>6, <4>1 DEF ListInv
    <3>. QED
      BY <3>5, <3>6
  <2>. QED
    BY <2>5, <2>6
<1>. QED
  BY <1>8, <1>10, <1>11

LEMMA ListNext == DiskInv /\ ListInv /\ pc \in Places /\ [Next]_vars => ListInv'
<1>. SUFFICES ASSUME DiskInv, ListInv, pc \in Places, [Next]_vars PROVE ListInv'
  OBVIOUS
<1>1. CASE Fsetdta
  BY <1>1, FsetdtaList
<1>2. ASSUME NEW r \in Results, NEW stats \in BOOLEAN, Fsfirst(r, stats) PROVE ListInv'
  BY <1>2, FsfirstList
<1>3. ASSUME NEW stats \in BOOLEAN, Fsnext(stats) PROVE ListInv'
  BY <1>3, FsnextList
<1>4. ASSUME NEW i \in DOMAIN listing, NEW refused \in BOOLEAN,
             Fopen(listing[i], refused) \/ Fdelete(listing[i], refused)
      PROVE  ListInv'
  BY <1>4, QuietList DEF Fopen, Fdelete
<1>5. CASE Fread
  BY <1>5, QuietList DEF Fread
<1>6. ASSUME NEW st \in StNames, NEW len \in 0 .. MaxLen, NEW refused \in BOOLEAN,
             Fcreate(st, len, refused)
      PROVE  ListInv'
  BY <1>6, QuietList DEF Fcreate
<1>7. ASSUME NEW taken \in 0 .. MaxLen, Fwrite(taken) PROVE ListInv'
  BY <1>7, QuietList DEF Fwrite
<1>8. ASSUME NEW kept \in 0 .. MaxLen, Fclose(kept) PROVE ListInv'
  BY <1>8, QuietList DEF Fclose
<1>9. CASE ColdReset
  BY <1>9, ResetList
<1>10. ASSUME NEW h \in HostFiles, NEW len \in Absent .. MaxLen, Disturb(h, len)
       PROVE  ListInv'
  BY <1>10, DisturbList DEF Disturb, HostChange
<1>11. CASE UNCHANGED vars
  <2>1. SearchType' /\ ListsOwned'
    BY <1>11 DEF ListInv, SearchType, ListsOwned, vars, searchVars
  <2>2. pc = "next" => Searching'
    BY <1>11 DEF ListInv, Searching, Exists, Room, vars, searchVars, guestVars, fileVars
  <2>3. Listed => Listed'
    BY <1>11 DEF Listed, vars, guestVars, fileVars
  <2>. QED
    BY <1>11, <2>1, <2>2, <2>3 DEF ListInv, Shown, vars, guestVars
<1>. QED
  BY <1>1, <1>2, <1>3, <1>4, <1>5, <1>6, <1>7, <1>8, <1>9, <1>10, <1>11 DEF Next

-----------------------------------------------------------------------------
(* The transfers.                                                          *)

\* The file a name is resolved to stays so when it gets another length.
LEMMA ResolveStable ==
  ASSUME DiskInv, NEW st \in StNames, NEW len \in Nat,
         disk' = [disk EXCEPT ![Resolve(st)] = len]
  PROVE  Resolve(st)' = Resolve(st) /\ Exists(Resolve(st))'
<1>. DEFINE r == Resolve(st)
            There(h) == disk'[h] # Absent
            First(h) == There(h) /\ \A g \in Fits[st] : There(g) => h <= g
<1>1. /\ r \in Fits[st] /\ r \in HostFiles
      /\ Fits[st] \subseteq Nat /\ Fits[st] \subseteq HostFiles
  BY ResolveIs, FilesAssumption
<1>2. \A h \in HostFiles : disk'[h] = IF h = r THEN len ELSE disk[h]
  BY <1>1 DEF DiskInv
<1>3. There(r)
  BY <1>1, <1>2 DEF Absent
<1>4. ASSUME NEW g \in Fits[st], There(g) PROVE r <= g
  <2>1. CASE g = r
    BY <1>1, <2>1
  <2>2. CASE g # r
    <3>1. Exists(g)
      BY <1>1, <1>2, <1>4, <2>2 DEF Exists
    <3>. QED
      BY <3>1, <1>4, ResolveIs
  <2>. QED
    BY <2>1, <2>2
<1>5. First(r)
  BY <1>3, <1>4
<1>6. Resolve(st)' = CHOOSE h \in Fits[st] : First(h)
  BY <1>1, <1>3 DEF Resolve, Exists
<1>7. ASSUME NEW h \in Fits[st], First(h) PROVE h = r
  BY <1>1, <1>5, <1>7
<1>. HIDE DEF First
<1>8. (CHOOSE h \in Fits[st] : First(h)) = r
  BY <1>1, <1>5, <1>7
<1>9. Exists(Resolve(st))' <=> There(Resolve(st)')
  BY DEF Exists
<1>. QED
  BY <1>3, <1>6, <1>8, <1>9

\* What exists under its own name, before all others that fit, is found.
LEMMA Found ==
  ASSUME chosen \in HostFiles, ~Misnamed, Exists(chosen)
  PROVE  Resolve(StName[chosen]) = chosen
<1>1. StName[chosen] \in StNames
  BY FilesAssumption
<1>2. /\ chosen \in Fits[StName[chosen]]
      /\ \A g \in Fits[StName[chosen]] : g < chosen => ~Exists(g)
  BY DEF Misnamed
<1>3. Fits[StName[chosen]] \subseteq Nat
  BY <1>1, FilesAssumption
<1>4. /\ Resolve(StName[chosen]) \in Fits[StName[chosen]]
      /\ Exists(Resolve(StName[chosen]))
      /\ Resolve(StName[chosen]) <= chosen
  BY <1>1, <1>2, ResolveIs
<1>. QED
  BY <1>2, <1>3, <1>4

LEMMA OpenedAt ==
  ASSUME FilesInv, DiskInv, Free = Table, NEW i \in Table, NEW h \in HostFiles, NEW w \in BOOLEAN,
         Opened(i, h, w)
  PROVE  /\ Table \ Free' = {i}
         /\ d0' = i + BASE_FILEHANDLE
         /\ stream'[fh'[i].stream] = [on |-> h, pos |-> 0, writes |-> w]
<1>1. FilesInv' /\ Free' = Free \ {i} /\ d0' = i + BASE_FILEHANDLE
  BY OpenedKeeps
<1>2. Table \ Free' = {i}
  BY <1>1
<1>3. PICK f \in Streams \ open :
        /\ stream' = [stream EXCEPT ![f] = [on |-> h, pos |-> 0, writes |-> w]]
        /\ fh' = [fh EXCEPT ![i] = [bUsed |-> TRUE, stream |-> f]]
  BY DEF Opened
<1>4. fh'[i].stream = f
  BY <1>3 DEF FilesInv
<1>5. stream'[f] = [on |-> h, pos |-> 0, writes |-> w]
  BY <1>3 DEF DiskInv
<1>. QED
  BY <1>1, <1>2, <1>4, <1>5

LEMMA TableNotEmpty == Table # {}
<1>1. 0 \in Table
  BY FilesAssumption DEF Table
<1>. QED
  BY <1>1

LEMMA QuietTransfer ==
  ASSUME size' \in Nat, report' = "none", pc' \notin Transfer
  PROVE  TransferInv'
BY DEF TransferInv, NothingFails, SaveIsKept, Transfer

\* What an entry of the listing says of its file.
LEMMA ChosenEntry ==
  ASSUME ListInv, pc = "listed", NEW i \in DOMAIN listing
  PROVE  /\ listing[i].file \in HostFiles /\ listing[i].len \in Nat
         /\ StName[listing[i].file] \in StNames
         /\ ~disturbed => disk[listing[i].file] = listing[i].len
<1>1. listing \in Seq(EntryType)
  BY DEF ListInv
<1>2. listing[i] \in EntryType /\ i \in 1 .. Len(listing)
  BY <1>1
<1>3. listing[i].file \in HostFiles /\ listing[i].len \in Nat
  BY <1>2 DEF EntryType
<1>4. ~disturbed => disk[listing[i].file] = listing[i].len
  BY <1>2 DEF ListInv, Listed
<1>. QED
  BY <1>3, <1>4, FilesAssumption

LEMMA FopenTransfer ==
  ASSUME FilesInv, GuestInv, DiskInv, ListInv, TransferInv,
         NEW i \in DOMAIN listing, NEW refused \in BOOLEAN, Fopen(listing[i], refused)
  PROVE  TransferInv'
<1>. DEFINE h == listing[i].file
            len == listing[i].len
<1>1. /\ pc = "listed" /\ Open(StName[h], refused)
      /\ chosen' = h /\ size' = len /\ handle' = Word(d0')
      /\ d0' # 0 => pc' = "read" /\ UNCHANGED report
      /\ disturbed \/ refused => disturbed'
  BY DEF Fopen
<1>2. /\ h \in HostFiles /\ len \in Nat /\ StName[h] \in StNames
      /\ ~disturbed => disk[h] = len
  BY <1>1, ChosenEntry
<1>3. Free = Table /\ report = "none"
  BY <1>1 DEF GuestInv, TransferInv, Transfer
<1>. HIDE DEF h, len
<1>4. PICK j \in Table : /\ FirstFree(j)
                         /\ IF refused \/ ~Exists(Resolve(StName[h]))
                            THEN NotOpened(j)
                            ELSE Opened(j, Resolve(StName[h]), FALSE) /\ UNCHANGED disk
  BY <1>1, <1>3, TableNotEmpty DEF Open
<1>5. CASE NotOpened(j) /\ (refused \/ ~Exists(Resolve(StName[h])))
  <2>1. d0' # 0 /\ UNCHANGED disk /\ Free' = Free
    <3>1. j \in Free
      BY <1>4 DEF FirstFree
    <3>2. Free' = Free
      BY <1>5, <3>1, NotOpenedKeeps
    <3>3. d0' = EFILNF /\ UNCHANGED disk
      BY <1>5 DEF NotOpened
    <3>. QED
      BY <3>2, <3>3 DEF EFILNF
  <2>2. pc' = "read" /\ report' = "none"
    BY <1>1, <1>3, <2>1
  <2>3. Table \ Free' = {}
    BY <1>3, <2>1
  <2>4. disturbed' \/ Misnamed'
    <3>1. SUFFICES ASSUME ~disturbed', ~Misnamed' PROVE FALSE
      OBVIOUS
    <3>2. ~refused /\ disk[h] \in Nat
      BY <1>1, <1>2, <3>1
    <3>3. Exists(h)
      BY <3>2 DEF Exists, Absent
    <3>4. /\ h \in Fits[StName[h]]
          /\ ~\E g \in Fits[StName[h]] : g < h /\ Exists(g)
      BY <1>1, <2>1, <3>1, <3>3 DEF Misnamed, Exists
    <3>5. Exists(Resolve(StName[h]))
      BY <1>2, <3>3, <3>4, ResolveIs
    <3>. QED
      BY <1>5, <3>2, <3>5
  <2>. QED
    BY <1>1, <1>2, <2>2, <2>3, <2>4, <1>3 DEF TransferInv, NothingFails, SaveIsKept, Table
<1>6. CASE /\ Opened(j, Resolve(StName[h]), FALSE) /\ UNCHANGED disk
  <2>1. Resolve(StName[h]) \in HostFiles
    BY <1>2, ResolveIs
  <2>2. /\ Table \ Free' = {j}
        /\ d0' = j + BASE_FILEHANDLE
        /\ stream'[fh'[j].stream] = [on |-> Resolve(StName[h]), pos |-> 0, writes |-> FALSE]
    BY <1>3, <1>6, <2>1, OpenedAt
  <2>3. d0' # 0 /\ Handle(handle') = j
    BY <1>1, <2>2, Words DEF Table, BASE_FILEHANDLE
  <2>4. pc' = "read" /\ report' = "none"
    BY <1>1, <1>3, <2>3
  <2>5. \A k \in Table \ Free' : ~stream'[fh'[k].stream].writes
    BY <2>2
  <2>6. disturbed' \/ Misnamed' \/ (At(chosen, 0, FALSE)' /\ disk'[chosen'] = size')
    <3>1. SUFFICES ASSUME ~disturbed', ~Misnamed'
                   PROVE  At(chosen, 0, FALSE)' /\ disk'[chosen'] = size'
      OBVIOUS
    <3>2. disk[h] = len
      BY <1>1, <1>2, <3>1
    <3>3. disk[h] = len /\ Exists(h)
      BY <1>2, <3>2 DEF Exists, Absent
    <3>4. /\ h \in Fits[StName[h]]
          /\ ~\E g \in Fits[StName[h]] : g < h /\ Exists(g)
      BY <1>1, <1>6, <3>1, <3>3 DEF Misnamed, Exists
    <3>5. /\ Resolve(StName[h]) <= h
          /\ Exists(Resolve(StName[h]))
          /\ Resolve(StName[h]) \in Fits[StName[h]]
          /\ Resolve(StName[h]) \in Nat /\ h \in Nat
      BY <1>2, <3>3, <3>4, ResolveIs, FilesAssumption
    <3>6. Resolve(StName[h]) = h
      BY <3>4, <3>5
    <3>7. At(chosen, 0, FALSE)'
      BY <1>1, <1>2, <2>2, <2>3, <3>6 DEF At, Table, Handle
    <3>. QED
      BY <1>1, <1>6, <3>3, <3>7
  <2>. QED
    BY <1>1, <1>2, <2>4, <2>5, <2>6 DEF TransferInv, NothingFails, SaveIsKept, Table
<1>. QED
  BY <1>4, <1>5, <1>6

LEMMA FcreateDoes ==
  ASSUME NEW st, NEW len, NEW refused, Fcreate(st, len, refused)
  PROVE  /\ pc = "listed" /\ Create(st, refused)
         /\ chosen' = Own[st] /\ size' = len /\ handle' = Word(d0')
         /\ IF Word(d0') >= 32768
            THEN pc' = "idle" /\ report' = "failed"
            ELSE pc' = "write" /\ UNCHANGED report
         /\ disturbed \/ refused => disturbed'
<1>1. pc = "listed" /\ Create(st, refused)
  BY DEF Fcreate
<1>2. chosen' = Own[st] /\ size' = len /\ handle' = Word(d0')
  BY DEF Fcreate
<1>3. IF Word(d0') >= 32768
            THEN pc' = "idle" /\ report' = "failed"
            ELSE pc' = "write" /\ UNCHANGED report
  BY DEF Fcreate
<1>4. disturbed' = (disturbed \/ refused)
  BY DEF Fcreate
<1>5. disturbed \/ refused => disturbed'
  BY <1>4
<1>. QED
  BY <1>1, <1>2, <1>3, <1>5

LEMMA FcreateTransfer ==
  ASSUME FilesInv, GuestInv, DiskInv, TransferInv,
         NEW st \in StNames, NEW len \in 0 .. MaxLen, NEW refused \in BOOLEAN,
         Fcreate(st, len, refused)
  PROVE  TransferInv'
<1>. DEFINE r == Resolve(st)
<1>1. /\ pc = "listed" /\ Create(st, refused)
      /\ chosen' = Own[st] /\ size' = len /\ handle' = Word(d0')
      /\ IF Word(d0') >= 32768
         THEN pc' = "idle" /\ report' = "failed"
         ELSE pc' = "write" /\ UNCHANGED report
      /\ disturbed \/ refused => disturbed'
  BY FcreateDoes
<1>2. /\ chosen' \in HostFiles /\ StName[chosen'] = st /\ size' \in Nat
      /\ r \in HostFiles
  BY <1>1, ResolveIs, FilesAssumption
<1>3. Free = Table /\ report = "none"
  BY <1>1 DEF GuestInv, TransferInv, Transfer
<1>4. PICK j \in Table : /\ FirstFree(j)
                         /\ IF refused \/ r \in Directories
                            THEN NotOpened(j)
                            ELSE Opened(j, r, TRUE) /\ disk' = [disk EXCEPT ![r] = 0]
  <2>1. Create(st, refused) /\ Free # {}
    BY <1>1, <1>3, TableNotEmpty
  <2>. QED
    BY <2>1, Zenon DEF Create
<1>5. CASE NotOpened(j) /\ (refused \/ r \in Directories)
  <2>1. d0' = EFILNF /\ UNCHANGED disk
    BY <1>5 DEF NotOpened
  <2>2. pc' = "idle" /\ report' = "failed"
    BY <1>1, <2>1, Words
  <2>3. Meant' = r
    BY <1>2, <2>1 DEF Resolve, Exists, Meant
  <2>4. disturbed' \/ Misnamed'
    BY <1>1, <1>5, <2>3 DEF Misnamed, Meant
  <2>. QED
    BY <1>2, <2>2, <2>4 DEF TransferInv, NothingFails, SaveIsKept, Transfer
<1>6. CASE Opened(j, r, TRUE) /\ disk' = [disk EXCEPT ![r] = 0]
  <2>1. /\ Table \ Free' = {j}
        /\ d0' = j + BASE_FILEHANDLE
        /\ stream'[fh'[j].stream] = [on |-> r, pos |-> 0, writes |-> TRUE]
    BY <1>2, <1>3, <1>6, OpenedAt
  <2>2. /\ Handle(handle') = j /\ Word(d0') < 32768
    BY <1>1, <2>1, Words
  <2>3. Word(d0') \in Nat
    BY <2>1, FilesAssumption DEF Word, Table, BASE_FILEHANDLE
  <2>4. pc' = "write" /\ report' = "none"
    BY <1>1, <1>3, <2>2, <2>3
  <2>5. Resolve(st)' = r /\ Exists(Resolve(st))'
    BY <1>6, ResolveStable
  <2>6. Meant' = r /\ (Exists(Meant))'
    BY <1>2, <2>5 DEF Meant, Resolve, Exists
  <2>7. At(Meant, 0, TRUE)'
    BY <1>2, <2>1, <2>2, <2>6 DEF At, Table, Handle
  <2>. QED
    BY <1>2, <2>4, <2>6, <2>7 DEF TransferInv, NothingFails, SaveIsKept
<1>. QED
  BY <1>4, <1>5, <1>6

LEMMA FdeleteTransfer ==
  ASSUME GuestInv, DiskInv, ListInv, TransferInv,
         NEW i \in DOMAIN listing, NEW refused \in BOOLEAN, Fdelete(listing[i], refused)
  PROVE  TransferInv'
<1>. DEFINE h == listing[i].file
<1>1. /\ pc = "listed" /\ UnLink(StName[h], refused)
      /\ chosen' = h /\ UNCHANGED size /\ pc' = "idle"
      /\ report' = IF d0' = 0 THEN "deleted" ELSE "failed"
      /\ disturbed \/ refused => disturbed'
  BY DEF Fdelete
<1>2. /\ h \in HostFiles /\ StName[h] \in StNames
      /\ ~disturbed => disk[h] \in Nat
  BY <1>1, ChosenEntry
<1>3. report' = "failed" => disturbed' \/ Misnamed'
  <2>1. SUFFICES ASSUME report' = "failed", ~disturbed', ~Misnamed' PROVE FALSE
    OBVIOUS
  <2>2. ~disturbed /\ ~refused /\ d0' # 0
    BY <1>1, <2>1
  <2>3. /\ UNCHANGED disk
        /\ ~Exists(Resolve(StName[h])) \/ Resolve(StName[h]) \in Directories
    BY <1>1, <2>2 DEF UnLink, EOK
  <2>4. Exists(h)
    BY <1>2, <2>2 DEF Exists, Absent
  <2>5. /\ h \in Fits[StName[h]]
        /\ Resolve(StName[h]) \notin Directories
    BY <1>1, <2>1, <2>3, <2>4 DEF Misnamed, Exists, Resolve
  <2>6. Exists(Resolve(StName[h]))
    BY <1>2, <2>4, <2>5, ResolveIs
  <2>. QED
    BY <2>3, <2>5, <2>6
<1>4. size' \in Nat
  BY <1>1 DEF TransferInv
<1>. QED
  BY <1>1, <1>3, <1>4 DEF TransferInv, NothingFails, SaveIsKept, Transfer

LEMMA FreadTransfer ==
  ASSUME FilesInv, DiskInv, TransferInv, Fread
  PROVE  TransferInv'
<1>. DEFINE f == fh[Handle(handle)].stream
<1>1. /\ pc = "read" /\ Read(handle, size, d0) /\ complete' = (d0' = size)
      /\ pc' = "readDone" /\ UNCHANGED <<chosen, size, handle, report, disturbed>>
  BY DEF Fread
<1>2. /\ size \in Nat /\ chosen \in HostFiles /\ report = "none"
      /\ \A i \in Table \ Free : ~stream[fh[i].stream].writes
      /\ disturbed \/ Misnamed \/ (At(chosen, 0, FALSE) /\ disk[chosen] = size)
  BY <1>1 DEF TransferInv, Transfer
<1>3. UNCHANGED <<disk, fh>>
  BY <1>1 DEF Read, fileVars
<1>4. \A i \in Table \ Free' : ~stream'[fh'[i].stream].writes
  <2>1. \A g \in Streams : stream'[g].writes = stream[g].writes
    <3>1. CASE UNCHANGED stream
      BY <3>1
    <3>2. CASE \E g, n : stream' = [stream EXCEPT ![g].pos = n]
      BY <3>2 DEF DiskInv
    <3>. QED
      BY <1>1, <3>1, <3>2 DEF Read, fileVars
  <2>2. Free' = Free
    BY <1>3 DEF Free, Table
  <2>3. \A i \in Table \ Free : fh[i].stream \in Streams
    BY UsedIsOpen
  <2>. QED
    BY <1>2, <1>3, <2>1, <2>2, <2>3
<1>5. Misnamed' <=> Misnamed
  BY <1>1, <1>3 DEF Misnamed, Resolve, Exists
<1>6. ASSUME At(chosen, 0, FALSE), disk[chosen] = size PROVE complete'
  <2>1. /\ ~IsInvalid(Handle(handle)) /\ Handle(handle) \in Table \ Free
        /\ stream[f].pos = 0 /\ stream[f].on = chosen
    BY <1>6 DEF At, IsInvalid, Free
  <2>2. d0' = Got(f, size)
    BY <1>1, <2>1 DEF Read
  <2>3. f \in open /\ f \in Streams
    BY <2>1, UsedIsOpen
  <2>4. Got(f, size) = size
    BY <1>2, <1>6, <2>1, <2>3, GotIs
  <2>. QED
    BY <1>1, <2>2, <2>4
<1>7. complete' \/ disturbed' \/ Misnamed'
  BY <1>1, <1>2, <1>5, <1>6
<1>. QED
  BY <1>1, <1>2, <1>4, <1>7 DEF TransferInv, NothingFails, SaveIsKept, Table

LEMMA FwriteTransfer ==
  ASSUME FilesInv, DiskInv, TransferInv, NEW taken \in 0 .. MaxLen, Fwrite(taken)
  PROVE  TransferInv'
<1>. DEFINE f == fh[Handle(handle)].stream
<1>1. /\ pc = "write" /\ taken <= size /\ Write(handle, taken, d0)
      /\ complete' = (d0' = size)
      /\ pc' = "writeDone" /\ UNCHANGED <<chosen, size, handle, report>>
      /\ disturbed \/ taken < size => disturbed'
  BY DEF Fwrite
<1>2. /\ size \in Nat /\ chosen \in HostFiles /\ report = "none"
      /\ disturbed \/ (At(Meant, 0, TRUE) /\ Exists(Meant))
  BY <1>1 DEF TransferInv, Transfer
<1>3. UNCHANGED <<disk, fh>>
  BY <1>1 DEF Write, fileVars
<1>4. ASSUME ~disturbed' PROVE complete' /\ (At(Meant, size, TRUE))' /\ (Exists(Meant))'
  <2>1. At(Meant, 0, TRUE) /\ Exists(Meant) /\ taken = size
    <3>1. At(Meant, 0, TRUE) /\ Exists(Meant) /\ ~(taken < size)
      BY <1>1, <1>2, <1>4
    <3>2. taken \in Int /\ size \in Int /\ taken <= size
      BY <1>1, <1>2, FilesAssumption
    <3>3. taken = size
      BY <3>1, <3>2
    <3>. QED
      BY <3>1, <3>3
  <2>2. /\ ~IsInvalid(Handle(handle)) /\ Handle(handle) \in Table \ Free
        /\ stream[f] = [on |-> Meant, pos |-> 0, writes |-> TRUE]
        /\ Meant \in HostFiles
    BY <2>1 DEF At, IsInvalid, Free
  <2>3. d0' = taken /\ stream' = [stream EXCEPT ![f].pos = @ + taken]
    BY <1>1, <2>2 DEF Write
  <2>4. f \in Streams
    BY <2>2, UsedIsOpen
  <2>5. stream'[f] = [on |-> Meant, pos |-> size, writes |-> TRUE]
    <3>. DEFINE q == stream[f]
    <3>1. stream'[f] = [q EXCEPT !.pos = @ + taken]
      BY <2>3, <2>4 DEF DiskInv
    <3>2. q = [on |-> Meant, pos |-> 0, writes |-> TRUE]
      BY <2>2
    <3>3. 0 + taken = size
      BY <1>2, <2>1
    <3>. HIDE DEF q
    <3>. QED
      BY <3>1, <3>2, <3>3
  <2>6. Meant' = Meant /\ Free' = Free
    BY <1>1, <1>3 DEF Meant, Resolve, Exists, Free, Table
  <2>7. (At(Meant, size, TRUE))'
    BY <1>1, <1>3, <2>2, <2>5, <2>6 DEF At, Table, Handle
  <2>8. (Exists(Meant))'
    BY <1>3, <2>1, <2>6 DEF Exists
  <2>. QED
    BY <1>1, <2>1, <2>3, <2>7, <2>8
<1>. QED
  BY <1>1, <1>2, <1>4 DEF TransferInv, NothingFails, SaveIsKept, Transfer

LEMMA FcloseTransfer ==
  ASSUME FilesInv, DiskInv, TransferInv, NEW kept \in 0 .. MaxLen, Fclose(kept)
  PROVE  TransferInv'
<1>1. /\ pc \in {"readDone", "writeDone"} /\ Close(handle, kept, d0)
      /\ pc' = "idle" /\ UNCHANGED <<chosen, size, complete>>
      /\ report' = IF ~complete THEN "failed" ELSE IF pc = "readDone" THEN "loaded" ELSE "saved"
      /\ disturbed \/ kept < size => disturbed'
  BY DEF Fclose
<1>2. /\ size \in Nat /\ chosen \in HostFiles /\ kept \in Nat
      /\ StName[chosen] \in StNames
  <2>1. size \in Nat /\ chosen \in HostFiles
    BY <1>1 DEF TransferInv, Transfer
  <2>2. kept \in Nat
    BY FilesAssumption
  <2>. QED
    BY <2>1, <2>2, FilesAssumption
<1>3. CASE pc = "readDone"
  <2>1. disk' = disk /\ (complete \/ disturbed \/ Misnamed)
    BY <1>1, <1>2, <1>3, CloseDisk DEF TransferInv
  <2>2. Misnamed' <=> Misnamed
    BY <1>1, <2>1 DEF Misnamed, Resolve, Exists
  <2>. QED
    BY <1>1, <1>2, <1>3, <2>1, <2>2 DEF TransferInv, NothingFails, SaveIsKept, Transfer
<1>4. CASE pc = "writeDone"
  <2>1. disturbed \/ (complete /\ At(Meant, size, TRUE) /\ Exists(Meant))
    BY <1>4 DEF TransferInv
  <2>2. CASE disturbed
    BY <1>1, <1>2, <1>4, <2>2 DEF TransferInv, NothingFails, SaveIsKept, Transfer
  <2>3. CASE ~disturbed
    <3>. DEFINE f == fh[Handle(handle)].stream
    <3>1. /\ complete /\ ~IsInvalid(Handle(handle))
          /\ stream[f] = [on |-> Meant, pos |-> size, writes |-> TRUE]
          /\ Meant \in HostFiles
      BY <2>1, <2>3 DEF At, IsInvalid, Free
    <3>2. disk' = [disk EXCEPT ![Meant] = IF kept < size THEN kept ELSE size]
      BY <1>1, <3>1 DEF Close, Flushed
    <3>3. ~disturbed' => disk' = [disk EXCEPT ![Meant] = size]
      BY <1>1, <3>2
    <3>4. ~disturbed' => Meant' = Meant
      <4>. SUFFICES ASSUME ~disturbed' PROVE Meant' = Meant
        OBVIOUS
      <4>1. PICK st \in StNames : st = StName[chosen]
        BY <1>2
      <4>2. disk' = [disk EXCEPT ![Resolve(st)] = size]
        BY <3>3, <4>1 DEF Meant
      <4>3. PICK len \in Nat : len = size
        BY <1>2
      <4>4. Resolve(st)' = Resolve(st)
        BY <4>2, <4>3, ResolveStable
      <4>5. StName[chosen'] = st
        BY <1>1, <4>1
      <4>. QED
        BY <4>1, <4>4, <4>5 DEF Meant, Resolve, Exists
    <3>5. ~disturbed' => disk'[Meant'] = size'
      BY <1>1, <3>1, <3>3, <3>4 DEF DiskInv
    <3>6. report' = "saved"
      BY <1>1, <1>4, <3>1
    <3>. QED
      BY <1>1, <1>2, <3>5, <3>6 DEF TransferInv, NothingFails, SaveIsKept, Transfer, Meant
  <2>. QED
    BY <2>2, <2>3
<1>. QED
  BY <1>1, <1>3, <1>4

LEMMA StillTransfer ==
  ASSUME TransferInv, UNCHANGED <<fh, stream, guestVars>>,
         disturbed' \/ UNCHANGED <<disk, disturbed>>
  PROVE  TransferInv'
<1>1. \A i \in Table \ Free : ~stream[fh[i].stream].writes
        => ~stream'[fh'[i].stream].writes
  OBVIOUS
<1>2. Free' = Free
  BY DEF Free, Table
<1>3. CASE disturbed'
  BY <1>1, <1>2, <1>3 DEF TransferInv, NothingFails, SaveIsKept, guestVars, Table
<1>4. CASE UNCHANGED <<disk, disturbed>>
  <2>1. Meant' = Meant /\ (Misnamed' <=> Misnamed)
    BY <1>4 DEF Meant, Misnamed, Resolve, Exists, guestVars
  <2>2. \A h, p, w : At(h, p, w) => At(h, p, w)'
    BY <1>2 DEF At, guestVars, Table, Handle
  <2>3. (Exists(Meant))' <=> Exists(Meant)
    BY <1>4, <2>1 DEF Exists
  <2>. QED
    BY <1>2, <1>4, <2>1, <2>2, <2>3
       DEF TransferInv, NothingFails, SaveIsKept, guestVars, Meant, Table
<1>. QED
  BY <1>3, <1>4

-----------------------------------------------------------------------------
(* The guest's handle.                                                     *)

LEMMA InitInv == Init => Inv
<1>. SUFFICES ASSUME Init PROVE Inv
  OBVIOUS
<1>1. /\ fh = [i \in Table |-> [bUsed |-> FALSE, stream |-> NoStream]]
      /\ open = {} /\ pc = "idle" /\ handle = 0
  BY DEF Init, FilesInit
<1>2. \A i \in Table : ~fh[i].bUsed
  BY <1>1
<1>3. Free = Table
  BY <1>2 DEF Free
<1>. QED
  BY <1>1, <1>3 DEF Inv, FilesInv, GuestInv, StreamsKept, UsedStreams, Places, Transfer

\* The guest gets its file, or goes on with a handle that is none.
LEMMA FopenInv ==
  ASSUME Inv, NEW e, NEW refused, Fopen(e, refused)
  PROVE  Inv'
<1>1. /\ pc = "listed" /\ Open(StName[e.file], refused) /\ handle' = Word(d0')
      /\ pc' \in {"idle", "read"} /\ (pc' = "idle" => d0' = 0)
  BY DEF Fopen
<1>2. Free = Table
  BY <1>1 DEF Inv, GuestInv, Transfer
<1>3. /\ FilesInv'
      /\ \/ d0' \in {EFILNF, ENHNDL} /\ Free' = Free
         \/ \E i \in Free : d0' = i + BASE_FILEHANDLE /\ Free' = Free \ {i}
  BY <1>1, OpeningKeeps DEF Inv
<1>4. CASE d0' \in {EFILNF, ENHNDL} /\ Free' = Free
  <2>1. handle' \in Int
    BY <1>1, <1>4, Words
  <2>. QED
    BY <1>1, <1>2, <1>3, <1>4, <2>1 DEF Inv, GuestInv, Places, Transfer, Table
<1>5. CASE \E i \in Free : d0' = i + BASE_FILEHANDLE /\ Free' = Free \ {i}
  <2>1. PICK i \in Free : d0' = i + BASE_FILEHANDLE /\ Free' = Free \ {i}
    BY <1>5
  <2>2. i \in Table /\ i \in Int /\ i >= 0
    BY <2>1, <1>2 DEF Table
  <2>3. d0' # 0
    BY <2>1, <2>2 DEF BASE_FILEHANDLE
  <2>4. Handle(handle') = i
    BY <1>1, <2>1, <2>2, Words
  <2>5. Table' \ Free' = {i}
    BY <1>2, <2>1, <2>2 DEF Table
  <2>6. handle' \in Int
    BY <1>1, <2>1, <2>2, FilesAssumption DEF Word, BASE_FILEHANDLE, Table
  <2>. QED
    BY <1>1, <1>3, <2>3, <2>4, <2>5, <2>6 DEF Inv, GuestInv, Places, Transfer, Handle
<1>. QED
  BY <1>3, <1>4, <1>5

LEMMA FcreateInv ==
  ASSUME Inv, NEW st, NEW len, NEW refused, Fcreate(st, len, refused)
  PROVE  Inv'
<1>1. /\ pc = "listed" /\ Create(st, refused) /\ handle' = Word(d0')
      /\ pc' \in {"idle", "write"} /\ (pc' = "idle" <=> Word(d0') >= 32768)
  BY DEF Fcreate
<1>2. Free = Table
  BY <1>1 DEF Inv, GuestInv, Transfer
<1>3. /\ FilesInv'
      /\ \/ d0' \in {EFILNF, ENHNDL} /\ Free' = Free
         \/ \E i \in Free : d0' = i + BASE_FILEHANDLE /\ Free' = Free \ {i}
  BY <1>1, OpeningKeeps DEF Inv
<1>4. CASE d0' \in {EFILNF, ENHNDL} /\ Free' = Free
  <2>1. handle' \in Int
    BY <1>1, <1>4, Words
  <2>. QED
    BY <1>1, <1>2, <1>3, <1>4, <2>1 DEF Inv, GuestInv, Places, Transfer, Table
<1>5. CASE \E i \in Free : d0' = i + BASE_FILEHANDLE /\ Free' = Free \ {i}
  <2>1. PICK i \in Free : d0' = i + BASE_FILEHANDLE /\ Free' = Free \ {i}
    BY <1>5
  <2>2. i \in Table
    BY <2>1, <1>2
  <2>3. Word(d0') < 32768
    BY <2>1, <2>2, Words
  <2>4. Handle(handle') = i
    BY <1>1, <2>1, <2>2, Words
  <2>5. Table' \ Free' = {i}
    BY <1>2, <2>1, <2>2 DEF Table
  <2>6. handle' \in Int
    BY <1>1, <2>1, <2>2, FilesAssumption DEF Word, BASE_FILEHANDLE, Table
  <2>7. pc' = "write"
    BY <1>1, <2>3, <2>6
  <2>. QED
    BY <1>3, <2>4, <2>5, <2>6, <2>7 DEF Inv, GuestInv, Places, Transfer, Handle
<1>. QED
  BY <1>3, <1>4, <1>5

\* The guest's handle is given back.
LEMMA FcloseInv ==
  ASSUME Inv, NEW kept, Fclose(kept)
  PROVE  Inv'
<1>1. Close(handle, kept, d0) /\ pc' = "idle" /\ handle' = handle
  BY DEF Fclose
<1>2. FilesInv' /\ Table \ Free' = (Table \ Free) \ {Handle(handle)}
  BY <1>1, CloseKeeps DEF Inv
<1>3. Table \ Free' = {}
  BY <1>2 DEF Inv, GuestInv
<1>4. Free' = Table
  BY <1>3 DEF Free, Table
<1>. QED
  BY <1>1, <1>2, <1>4 DEF Inv, GuestInv, Places, Transfer, Table

\* A step that leaves the table of handles alone.
LEMMA OtherInv ==
  ASSUME Inv, UNCHANGED <<fh, open, handle>>, pc' \in Places,
         pc \in Transfer <=> pc' \in Transfer
  PROVE  Inv'
<1>1. FilesInv' /\ Free' = Free
  BY UnchangedKeeps DEF Inv
<1>. QED
  BY <1>1 DEF Inv, GuestInv, Table, Handle

LEMMA NextInv == Inv /\ [Next]_vars => Inv'
<1>. SUFFICES ASSUME Inv, [Next]_vars PROVE Inv'
  OBVIOUS
<1>1. CASE Fsetdta
  <2>1. FilesInv' /\ Free' = Free /\ pc' = "search" /\ handle' = 0 /\ Free = Table
    BY <1>1, UnchangedKeeps DEF Fsetdta, fileVars, Inv, GuestInv, Transfer
  <2>. QED
    BY <2>1 DEF Inv, GuestInv, Places, Transfer, Table
<1>2. ASSUME NEW r \in Results, NEW stats \in BOOLEAN, Fsfirst(r, stats) PROVE Inv'
  BY <1>2, OtherInv DEF Fsfirst, fileVars, Places, Transfer
<1>3. ASSUME NEW stats \in BOOLEAN, Fsnext(stats) PROVE Inv'
  BY <1>3, OtherInv DEF Fsnext, fileVars, Places, Transfer
<1>4. ASSUME NEW i \in DOMAIN listing, NEW refused \in BOOLEAN, Fopen(listing[i], refused)
      PROVE  Inv'
  BY <1>4, FopenInv
<1>5. ASSUME NEW i \in DOMAIN listing, NEW refused \in BOOLEAN, Fdelete(listing[i], refused)
      PROVE  Inv'
  BY <1>5, OtherInv DEF Fdelete, UnLink, Places, Transfer
<1>6. CASE Fread
  <2>1. UNCHANGED <<fh, open>>
    BY <1>6 DEF Fread, Read, fileVars
  <2>. QED
    BY <1>6, <2>1, OtherInv DEF Fread, Places, Transfer
<1>7. ASSUME NEW st \in StNames, NEW len \in 0 .. MaxLen, NEW refused \in BOOLEAN,
             Fcreate(st, len, refused)
      PROVE  Inv'
  BY <1>7, FcreateInv
<1>8. ASSUME NEW taken \in 0 .. MaxLen, Fwrite(taken) PROVE Inv'
  <2>1. UNCHANGED <<fh, open>>
    BY <1>8 DEF Fwrite, Write, fileVars
  <2>. QED
    BY <1>8, <2>1, OtherInv DEF Fwrite, Places, Transfer
<1>9. ASSUME NEW kept \in 0 .. MaxLen, Fclose(kept) PROVE Inv'
  BY <1>9, FcloseInv
<1>10. CASE ColdReset
  <2>1. FilesInv' /\ Free' = Table /\ pc' = "idle" /\ handle' = 0
    BY <1>10, FilesResetKeeps DEF ColdReset, Inv
  <2>. QED
    BY <2>1 DEF Inv, GuestInv, Places, Transfer, Table
<1>11. ASSUME NEW h \in HostFiles, NEW len \in Absent .. MaxLen, Disturb(h, len) PROVE Inv'
  BY <1>11, OtherInv DEF Disturb, HostChange, guestVars, Inv, GuestInv
<1>12. CASE UNCHANGED vars
  BY <1>12, OtherInv DEF vars, fileVars, guestVars, Inv, GuestInv
<1>. QED
  BY <1>1, <1>2, <1>3, <1>4, <1>5, <1>6, <1>7, <1>8, <1>9, <1>10, <1>11, <1>12 DEF Next

LEMMA TransferNext == FilesInv /\ GuestInv /\ DiskInv /\ ListInv /\ TransferInv
                        /\ [Next]_vars => TransferInv'
<1>. SUFFICES ASSUME FilesInv, GuestInv, DiskInv, ListInv, TransferInv, [Next]_vars
              PROVE  TransferInv'
  OBVIOUS
<1>1. size \in Nat /\ (report # "none" => pc = "idle")
  BY DEF TransferInv
<1>2. CASE Fsetdta
  BY <1>2, QuietTransfer DEF Fsetdta, Transfer
<1>3. ASSUME NEW r \in Results, NEW stats \in BOOLEAN, Fsfirst(r, stats) PROVE TransferInv'
  BY <1>1, <1>3, QuietTransfer DEF Fsfirst, Transfer
<1>4. ASSUME NEW stats \in BOOLEAN, Fsnext(stats) PROVE TransferInv'
  BY <1>1, <1>4, QuietTransfer DEF Fsnext, Transfer
<1>5. ASSUME NEW i \in DOMAIN listing, NEW refused \in BOOLEAN, Fopen(listing[i], refused)
      PROVE  TransferInv'
  BY <1>5, FopenTransfer
<1>6. ASSUME NEW i \in DOMAIN listing, NEW refused \in BOOLEAN, Fdelete(listing[i], refused)
      PROVE  TransferInv'
  BY <1>6, FdeleteTransfer
<1>7. CASE Fread
  BY <1>7, FreadTransfer
<1>8. ASSUME NEW st \in StNames, NEW len \in 0 .. MaxLen, NEW refused \in BOOLEAN,
             Fcreate(st, len, refused)
      PROVE  TransferInv'
  BY <1>8, FcreateTransfer
<1>9. ASSUME NEW taken \in 0 .. MaxLen, Fwrite(taken) PROVE TransferInv'
  BY <1>9, FwriteTransfer
<1>10. ASSUME NEW kept \in 0 .. MaxLen, Fclose(kept) PROVE TransferInv'
  BY <1>10, FcloseTransfer
<1>11. CASE ColdReset
  BY <1>11, QuietTransfer DEF ColdReset, Transfer
<1>12. ASSUME NEW h \in HostFiles, NEW len \in Absent .. MaxLen, Disturb(h, len)
       PROVE  TransferInv'
  BY <1>12, StillTransfer DEF Disturb, HostChange
<1>13. CASE UNCHANGED vars
  BY <1>13, StillTransfer DEF vars, fileVars
<1>. QED
  BY <1>2, <1>3, <1>4, <1>5, <1>6, <1>7, <1>8, <1>9, <1>10, <1>11, <1>12, <1>13 DEF Next

-----------------------------------------------------------------------------
(* All of it together.                                                     *)

AllInv == Inv /\ DiskInv /\ ListInv /\ TransferInv

LEMMA InitAll == Init => AllInv
<1>. SUFFICES ASSUME Init PROVE AllInv
  OBVIOUS
<1>1. Inv
  BY InitInv
<1>2. DiskInv
  <2>1. disk \in [HostFiles -> Absent .. MaxLen] /\ stream = [f \in Streams |-> Closed]
        /\ open = {}
    BY DEF Init, FilesInit, Disks
  <2>2. \A x \in Absent .. MaxLen : x \in Nat \cup {Absent}
    BY FilesAssumption DEF Absent
  <2>3. disk \in [HostFiles -> Nat \cup {Absent}]
    BY <2>1, <2>2
  <2>. QED
    BY <2>1, <2>3 DEF DiskInv, Closed
<1>3. ListInv
  <2>1. /\ slots = [i \in Slots |-> EmptySlot] /\ index = 0 /\ dta = NoDta /\ ~misread
        /\ pc = "idle" /\ listing = << >> /\ snapshot = << >>
    BY DEF Init, SearchInit
  <2>2. 0 \in Slots
    BY SearchAssumption DEF Slots
  <2>3. EmptySlot \in SlotType
    BY DEF EmptySlot, SlotType, Founds
  <2>4. SearchType
    BY <2>1, <2>2, <2>3 DEF SearchType, NoDta
  <2>5. ListsOwned
    BY <2>1 DEF ListsOwned, EmptySlot
  <2>6. listing \in Seq(EntryType) /\ snapshot \in Seq(HostFiles)
    BY <2>1
  <2>. QED
    BY <2>1, <2>4, <2>5, <2>6 DEF ListInv
<1>4. TransferInv
  BY DEF Init, TransferInv, NothingFails, SaveIsKept, Transfer
<1>. QED
  BY <1>1, <1>2, <1>3, <1>4 DEF AllInv

LEMMA NextAll == AllInv /\ [Next]_vars => AllInv'
<1>. SUFFICES ASSUME AllInv, [Next]_vars PROVE AllInv'
  OBVIOUS
<1>1. /\ Inv /\ FilesInv /\ GuestInv /\ DiskInv /\ ListInv /\ TransferInv
      /\ pc \in Places /\ size \in Nat /\ listing \in Seq(EntryType)
  BY DEF AllInv, Inv, GuestInv, ListInv, TransferInv
<1>2. Inv'
  BY <1>1, NextInv
<1>3. DiskInv'
  BY <1>1, DiskNext
<1>4. ListInv'
  BY <1>1, ListNext
<1>5. TransferInv'
  BY <1>1, TransferNext
<1>. QED
  BY <1>2, <1>3, <1>4, <1>5 DEF AllInv

\* What the guest knows of the table, its searches and its transfers, in
\* every state of every behaviour of the guest at its files.
THEOREM Invariance == Spec => []AllInv
<1>. QED
  BY InitAll, NextAll, PTL DEF Spec

\* hostcall.c:303, 591, 638, 671: the streams open are those of the used
\* entries, one each, for tables and directories of any size.
THEOREM StreamsAreKept == Spec => []StreamsKept
<1>1. AllInv => StreamsKept
  BY DEF AllInv, Inv, FilesInv
<1>. QED
  BY <1>1, Invariance, PTL

\* fe2.s:45854-45969: the guest never returns to its selector with a file
\* open.
THEOREM HandlesAreReturned == Spec => []HandlesReturned
<1>1. AllInv => HandlesReturned
  BY DEF AllInv, Inv, GuestInv, HandlesReturned, Transfer
<1>. QED
  BY <1>1, Invariance, PTL

\* fe2.s:45787-45846: a listing made while the host changes nothing shows
\* the files there are, in order and as many as fit, from lists that are its
\* search's own, whatever the number of files, of slots and of entries.
THEOREM ListingsAreFaithful == Spec => []ListingFaithful
<1>1. AllInv => ListingFaithful
  BY DEF AllInv, ListInv, ListingFaithful, Listed
<1>. QED
  BY <1>1, Invariance, PTL

\* fe2.s:45854-46005: nothing the player asks for fails unless the host
\* refuses or changes something or the name is not the file's.
THEOREM NothingFailsUnasked == Spec => []NothingFails
<1>1. AllInv => NothingFails
  BY DEF AllInv, TransferInv
<1>. QED
  BY <1>1, Invariance, PTL

\* fe2.s:45946-45957, hostcall.c:671: a save reported as done is on the disk,
\* whole.
THEOREM SavesAreKept == Spec => []SaveIsKept
<1>1. AllInv => SaveIsKept
  BY DEF AllInv, TransferInv
<1>. QED
  BY <1>1, Invariance, PTL
=============================================================================
