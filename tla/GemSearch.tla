----------------------------- MODULE GemSearch -----------------------------
(***************************************************************************)
(* The directory searches of GEMDOS in hardware/hostcall.c: Fsetdta,       *)
(* Fsfirst and Fsnext over the ring InternalDTAs.  A search is known to    *)
(* the guest by the record it gets at its disc transfer address, which     *)
(* holds the number of the ring's slot.                                    *)
(*                                                                         *)
(* The list of a slot is a pointer: it may be NULL, or to memory that has  *)
(* been freed since.  Lists that a cold reset forgets are never touched    *)
(* again and left out of the model.                                        *)
(***************************************************************************)
EXTENDS GemFiles, Sequences, FiniteSets

CONSTANTS
  MaxDtas,          \* MAX_DTAS_FILES
  NoList            \* NULL

ASSUME SearchAssumption ==
  /\ MaxDtas \in Nat \ {0}
  /\ IsFiniteSet(HostFiles)
  /\ NoList \notin [files : Seq(HostFiles), freed : BOOLEAN]

VARIABLES
  slots,            \* InternalDTAs
  index,            \* DTAIndex
  pDTA,             \* whether pDTA is set
  dta,              \* the guest's record: magic, index and an entry
  misread           \* history: an entry was read that is in no list

searchVars == <<slots, index, pDTA, dta, misread>>

Slots == 0 .. MaxDtas - 1

EmptySlot == [bUsed |-> FALSE, nentries |-> 0, centry |-> 0, found |-> NoList]

NoDta == [magic |-> FALSE, index |-> 0, name |-> 0, size |-> 0]

\* GemDOS_Init.
SearchInit ==
  /\ slots = [i \in Slots |-> EmptySlot]
  /\ index = 0
  /\ pDTA = FALSE
  /\ dta = NoDta
  /\ misread = FALSE

\* scandir with alphasort, and match with "*.*": the names beginning with a
\* dot, here two, are counted and match nothing.
Present == {h \in HostFiles : Exists(h)}

Matching ==
  CHOOSE s \in [1 .. Cardinality(Present) -> Present] :
    \A i, j \in DOMAIN s : i < j => s[i] < s[j]

Scanned == 2 + Cardinality(Present)

NewList(files) == [files |-> files, freed |-> FALSE]

\* ClearInternalDTA, called for a used slot: the list is freed and the
\* pointer stays.
Cleared(s) ==
  IF s.bUsed /\ s.found # NoList THEN [s EXCEPT !.found.freed = TRUE] ELSE s

\* GemDOS_SetDTA.  What is at the new address is of no use before a search
\* has written it.
SetDTA(d) ==
  /\ pDTA' = TRUE
  /\ dta' = NoDta
  /\ d0' = d
  /\ UNCHANGED <<slots, index, misread>>

\* The entry a slot's search is at.
Legal(s) ==
  /\ s.found # NoList
  /\ ~s.found.freed
  /\ s.centry + 1 \in DOMAIN s.found.files

\* GemDOS_SNext for slot i of sl, with record rec in the guest's memory:
\* PopulateDTA fails if stat does, and then D0 is not written.
Advance(sl, rec, i, stats, d) ==
  LET s == sl[i]
      h == s.found.files[s.centry + 1]
  IN IF s.centry >= s.nentries
     THEN /\ d0' = ENMFIL
          /\ slots' = sl
          /\ dta' = rec
          /\ UNCHANGED misread
     ELSE /\ slots' = [sl EXCEPT ![i].centry = @ + 1]
          /\ misread' = (misread \/ ~Legal(s))
          /\ IF Legal(s) /\ stats /\ Exists(h)
             THEN /\ dta' = [rec EXCEPT !.name = h, !.size = disk[h]]
                  /\ d0' = EOK
             ELSE /\ dta' = rec
                  /\ d0' = d

SNext(stats, d) ==
  /\ IF dta.magic
     THEN Advance(slots, dta, dta.index, stats, d)
     ELSE d0' = d /\ UNCHANGED <<slots, dta, misread>>
  /\ UNCHANGED <<index, pDTA>>

\* DTAIndex after a search.
NextSlot(i) == (i + 1) % MaxDtas

\* GemDOS_SFirst: what opendir and scandir say is result.  The guest never
\* asks for the volume label.
SFirst(result, stats, d) ==
  LET old   == slots[index]
      s     == [Cleared(old) EXCEPT !.bUsed = TRUE]
      rec   == [dta EXCEPT !.magic = TRUE, !.index = index]
      Fails(slot, status) ==
        /\ slots' = [slots EXCEPT ![index] = slot]
        /\ dta' = rec
        /\ d0' = status
        /\ UNCHANGED <<index, misread>>
  IN /\ UNCHANGED pDTA
     /\ CASE result = "nopath" -> Fails(s, EPTHNF)
          [] result = "noscan" -> Fails([s EXCEPT !.nentries = -1], EFILNF)
          [] result = "ok" /\ Present = {} ->
               Fails([s EXCEPT !.nentries = Scanned, !.centry = 0], d)
          [] OTHER ->
               /\ Advance([slots EXCEPT ![index] =
                             [s EXCEPT !.nentries = Len(Matching), !.centry = 0,
                                       !.found = NewList(Matching)]],
                          rec, index, stats, d)
               /\ index' = NextSlot(index)

\* GemDOS_Reset, the searches, and the clearing of the guest's memory.
SearchReset ==
  /\ slots' = [i \in Slots |-> [slots[i] EXCEPT !.bUsed = FALSE, !.nentries = 0,
                                                !.found = NoList]]
  /\ index' = 0
  /\ pDTA' = FALSE
  /\ dta' = NoDta
  /\ UNCHANGED misread

-----------------------------------------------------------------------------

(***************************************************************************)
(* hostcall.c:189, 822: no entry is taken from a list that is freed, was    *)
(* never made or is too short, though a slot keeps the pointer to the list  *)
(* that was freed when its search fails (and the next search frees it       *)
(* again): that slot is the next one to be used, never one of a search that *)
(* goes on.                                                                 *)
(***************************************************************************)
ListsOwned ==
  /\ ~misread
  /\ \A i \in Slots \ {index} :
       slots[i].bUsed => slots[i].found # NoList /\ ~slots[i].found.freed
=============================================================================
