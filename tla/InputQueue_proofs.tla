-------------------------- MODULE InputQueue_proofs --------------------------
(***************************************************************************)
(* For buffers of any size, any key map and any number of buttons: each    *)
(* ring is the queue it promises to be, no key sticks and the guest's      *)
(* buttons come to agree with the host's.                                  *)
(*                                                                         *)
(* First the rings, as operators: a Put appends to the contents and a Drop *)
(* takes their head.  NoStuckKey speaks only of the moment when all is     *)
(* read and is not inductive.  KeysInv says at every moment what the guest *)
(* will believe once it has read what waits (AfterReading), which a read   *)
(* does not change; and that the host's marks are the keys held, so that   *)
(* no release is held back.  ButtonsInv is the same for the buttons.       *)
(***************************************************************************)
EXTENDS InputQueue, SequenceTheorems, TLAPS

-----------------------------------------------------------------------------
(* Ring buffers of any size, with entries of any kind.                     *)

\* An index reduced modulo the size of the buffer, where it is at most one
\* turn off.
LEMMA Turn ==
  ASSUME NEW size \in Nat, size > 1, NEW n \in Int
  PROVE  /\ 0 <= n /\ n < size => n % size = n
         /\ size <= n /\ n < size + size => n % size = n - size
         /\ -size <= n /\ n < 0 => n % size = n + size
<1>1. 0 <= n /\ n < size => n % size = n
  OBVIOUS
<1>2. size <= n /\ n < size + size => n % size = n - size
  OBVIOUS
<1>3. -size <= n /\ n < 0 => n % size = n + size
  OBVIOUS
<1>. QED
  BY <1>1, <1>2, <1>3

LEMMA LengthIs ==
  ASSUME NEW size \in Nat, size > 1, NEW Entries, NEW r \in Rings(size, Entries)
  PROVE  /\ Length(r, size) = IF r.head <= r.tail THEN r.tail - r.head
                              ELSE r.tail - r.head + size
         /\ Length(r, size) \in 0 .. size - 1
         /\ Length(r, size) = 0 <=> IsEmpty(r)
<1>. DEFINE d == r.tail - r.head
<1>1. /\ r.head \in 0 .. size - 1 /\ r.tail \in 0 .. size - 1
      /\ d \in Int /\ d = r.tail - r.head
  BY DEF Rings, Indices
<1>2. /\ 0 <= d /\ d < size => d % size = d
      /\ -size <= d /\ d < 0 => d % size = d + size
  BY <1>1, Turn
<1>3. Length(r, size) = d % size
  BY DEF Length
<1>. HIDE DEF d
<1>. QED
  BY <1>1, <1>2, <1>3 DEF IsEmpty

\* The slot of the i-th of the entries that wait.
Slot(r, size, i) ==
  IF r.head + i - 1 < size THEN r.head + i - 1 ELSE r.head + i - 1 - size

LEMMA SlotIs ==
  ASSUME NEW size \in Nat, size > 1, NEW Entries, NEW r \in Rings(size, Entries),
         NEW i \in 1 .. size
  PROVE  /\ (r.head + i - 1) % size = Slot(r, size, i)
         /\ Slot(r, size, i) \in Indices(size)
<1>. DEFINE n == r.head + i - 1
<1>1. r.head \in 0 .. size - 1 /\ n \in Int /\ n = r.head + i - 1
  BY DEF Rings, Indices
<1>2. /\ 0 <= n /\ n < size => n % size = n
      /\ size <= n /\ n < size + size => n % size = n - size
  BY <1>1, Turn
<1>3. Slot(r, size, i) = IF n < size THEN n ELSE n - size
  BY <1>1 DEF Slot
<1>. HIDE DEF n
<1>. QED
  BY <1>1, <1>2, <1>3 DEF Indices

LEMMA ContentsIs ==
  ASSUME NEW size \in Nat, size > 1, NEW Entries, NEW r \in Rings(size, Entries)
  PROVE  /\ Contents(r, size) \in Seq(Entries)
         /\ Len(Contents(r, size)) = Length(r, size)
         /\ \A i \in 1 .. Length(r, size) :
              Contents(r, size)[i] = r.buf[Slot(r, size, i)]
<1>1. Length(r, size) \in 0 .. size - 1
  BY LengthIs
<1>2. \A i \in 1 .. Length(r, size) : i \in 1 .. size
  BY <1>1
<1>3. \A i \in 1 .. Length(r, size) : Slot(r, size, i) \in Indices(size)
  BY <1>2, SlotIs
<1>4. \A i \in 1 .. Length(r, size) : (r.head + i - 1) % size = Slot(r, size, i)
  BY <1>2, SlotIs
<1>5. Contents(r, size) = [i \in 1 .. Length(r, size) |-> r.buf[Slot(r, size, i)]]
  BY <1>4 DEF Contents
<1>6. r.buf \in [Indices(size) -> Entries]
  BY DEF Rings
<1>7. \A i \in 1 .. Length(r, size) : r.buf[Slot(r, size, i)] \in Entries
  BY <1>3, <1>6
<1>. QED
  BY <1>1, <1>5, <1>7

\* hardware/input.c:72-89: an entry is put behind those that wait, or it
\* takes them all with it.
LEMMA PutContents ==
  ASSUME NEW size \in Nat, size > 1, NEW Entries, NEW r \in Rings(size, Entries),
         NEW e \in Entries
  PROVE  /\ Put(r, size, e) \in Rings(size, Entries)
         /\ Contents(Put(r, size, e), size) =
              IF Length(r, size) = size - 1 THEN << >>
              ELSE Append(Contents(r, size), e)
<1>. DEFINE q == Put(r, size, e)
            n == Length(r, size)
            t == IF r.tail + 1 = size THEN 0 ELSE r.tail + 1
<1>1. r.head \in 0 .. size - 1 /\ r.tail \in 0 .. size - 1 /\ r.buf \in [Indices(size) -> Entries]
  BY DEF Rings, Indices
<1>2. (r.tail + 1) % size = t
  <2>. DEFINE m == r.tail + 1
  <2>1. m \in Int /\ m = r.tail + 1
    BY <1>1
  <2>2. /\ 0 <= m /\ m < size => m % size = m
        /\ size <= m /\ m < size + size => m % size = m - size
    BY <2>1, Turn
  <2>. HIDE DEF m
  <2>3. m % size = t
    BY <1>1, <2>1, <2>2
  <2>. QED
    BY <2>1, <2>3
<1>3. q = [buf |-> [r.buf EXCEPT ![r.tail] = e], head |-> r.head, tail |-> t]
  <2>1. q = [r EXCEPT !.buf = [r.buf EXCEPT ![r.tail] = e], !.tail = t]
    BY <1>2, Zenon DEF Put
  <2>. QED
    BY <2>1 DEF Rings
<1>4. t \in 0 .. size - 1
  BY <1>1
<1>5. q \in Rings(size, Entries)
  BY <1>1, <1>3, <1>4 DEF Rings, Indices
<1>6. /\ n = IF r.head <= r.tail THEN r.tail - r.head ELSE r.tail - r.head + size
      /\ n \in 0 .. size - 1
  BY LengthIs
<1>7. /\ Length(q, size) = IF q.head <= q.tail THEN q.tail - q.head ELSE q.tail - q.head + size
  BY <1>5, LengthIs
<1>8. q.head = r.head /\ q.tail = t /\ q.buf = [r.buf EXCEPT ![r.tail] = e]
  BY <1>3
<1>. HIDE DEF q, n
<1>9. Length(q, size) = IF n = size - 1 THEN 0 ELSE n + 1
  BY <1>1, <1>6, <1>7, <1>8
<1>10. /\ Contents(q, size) \in Seq(Entries)
       /\ Len(Contents(q, size)) = Length(q, size)
       /\ \A i \in 1 .. Length(q, size) : Contents(q, size)[i] = q.buf[Slot(q, size, i)]
  BY <1>5, ContentsIs
<1>11. /\ Contents(r, size) \in Seq(Entries)
       /\ Len(Contents(r, size)) = n
       /\ \A i \in 1 .. n : Contents(r, size)[i] = r.buf[Slot(r, size, i)]
  BY ContentsIs DEF n
<1>12. CASE n = size - 1
  <2>1. Contents(q, size) = << >>
    BY <1>9, <1>10, <1>12, EmptySeq
  <2>. QED
    BY <1>5, <1>12, <2>1 DEF q, n
<1>13. CASE n # size - 1
  <2>. DEFINE s == Append(Contents(r, size), e)
  <2>1. Length(q, size) = n + 1 /\ n \in 0 .. size - 2
    BY <1>6, <1>9, <1>13
  <2>2. /\ s \in Seq(Entries) /\ Len(s) = n + 1
        /\ \A i \in 1 .. n : s[i] = Contents(r, size)[i]
        /\ s[n + 1] = e
    BY <1>6, <1>11, AppendProperties
  <2>3. \A i \in 1 .. n + 1 : Slot(q, size, i) = Slot(r, size, i)
    BY <1>8 DEF Slot
  <2>4. Slot(r, size, n + 1) = r.tail
    BY <1>1, <1>6, <2>1 DEF Slot
  <2>5. \A i \in 1 .. n : Slot(r, size, i) \in Indices(size) /\ Slot(r, size, i) # r.tail
    <3>. SUFFICES ASSUME NEW i \in 1 .. n
                  PROVE  Slot(r, size, i) \in Indices(size) /\ Slot(r, size, i) # r.tail
      OBVIOUS
    <3>. DEFINE head == r.head
                tail == r.tail
    <3>1. /\ n \in 0 .. size - 2 /\ i \in 1 .. n
          /\ head \in 0 .. size - 1 /\ tail \in 0 .. size - 1
          /\ n = IF head <= tail THEN tail - head ELSE tail - head + size
      BY <1>1, <1>6, <2>1
    <3>2. Slot(r, size, i) = IF head + i - 1 < size THEN head + i - 1 ELSE head + i - 1 - size
      BY DEF Slot
    <3>. HIDE DEF head, tail
    <3>3. Slot(r, size, i) \in 0 .. size - 1 /\ Slot(r, size, i) # tail
      BY <3>1, <3>2
    <3>. QED
      BY <3>3 DEF tail, Indices
  <2>6. q.buf[r.tail] = e
    BY <1>1, <1>8 DEF Indices
  <2>7. \A i \in 1 .. n : q.buf[Slot(q, size, i)] = r.buf[Slot(r, size, i)]
    BY <1>1, <1>8, <2>3, <2>5, <2>1
  <2>8. q.buf[Slot(q, size, n + 1)] = e
    BY <2>1, <2>3, <2>4, <2>6
  <2>. HIDE DEF s
  <2>9. \A i \in 1 .. n + 1 : Contents(q, size)[i] = s[i]
    <3>. SUFFICES ASSUME NEW i \in 1 .. n + 1 PROVE Contents(q, size)[i] = s[i]
      OBVIOUS
    <3>1. Contents(q, size)[i] = q.buf[Slot(q, size, i)]
      BY <1>10, <2>1
    <3>2. CASE i \in 1 .. n
      BY <1>11, <2>2, <2>7, <3>1, <3>2
    <3>3. CASE i = n + 1
      BY <2>2, <2>8, <3>1, <3>3
    <3>. QED
      BY <2>1, <3>2, <3>3
  <2>10. Contents(q, size) = s
    BY <1>10, <2>1, <2>2, <2>9, SeqEqual
  <2>. QED
    BY <1>5, <1>13, <2>10 DEF q, n, s
<1>. QED
  BY <1>12, <1>13

\* hardware/input.c:103-135: what is read is the oldest entry.
LEMMA DropContents ==
  ASSUME NEW size \in Nat, size > 1, NEW Entries, NEW r \in Rings(size, Entries),
         ~IsEmpty(r)
  PROVE  /\ Drop(r, size) \in Rings(size, Entries)
         /\ Oldest(r) \in Entries
         /\ Contents(r, size) # << >>
         /\ Oldest(r) = Head(Contents(r, size))
         /\ Contents(Drop(r, size), size) = Tail(Contents(r, size))
<1>. DEFINE q == Drop(r, size)
            n == Length(r, size)
            h == IF r.head + 1 = size THEN 0 ELSE r.head + 1
<1>1. r.head \in 0 .. size - 1 /\ r.tail \in 0 .. size - 1 /\ r.buf \in [Indices(size) -> Entries]
  BY DEF Rings, Indices
<1>2. (r.head + 1) % size = h
  <2>. DEFINE m == r.head + 1
  <2>1. m \in Int /\ m = r.head + 1
    BY <1>1
  <2>2. /\ 0 <= m /\ m < size => m % size = m
        /\ size <= m /\ m < size + size => m % size = m - size
    BY <2>1, Turn
  <2>. HIDE DEF m
  <2>3. m % size = h
    BY <1>1, <2>1, <2>2
  <2>. QED
    BY <2>1, <2>3
<1>3. q = [buf |-> r.buf, head |-> h, tail |-> r.tail]
  BY <1>2 DEF Drop, Rings
<1>4. h \in 0 .. size - 1
  BY <1>1
<1>5. q \in Rings(size, Entries)
  BY <1>1, <1>3, <1>4 DEF Rings, Indices
<1>6. /\ n = IF r.head <= r.tail THEN r.tail - r.head ELSE r.tail - r.head + size
      /\ n \in 0 .. size - 1
      /\ n # 0
  BY LengthIs
<1>7. /\ Length(q, size) = IF q.head <= q.tail THEN q.tail - q.head ELSE q.tail - q.head + size
  BY <1>5, LengthIs
<1>8. q.head = h /\ q.tail = r.tail /\ q.buf = r.buf
  BY <1>3
<1>9. Oldest(r) \in Entries
  BY <1>1 DEF Oldest, Indices
<1>. HIDE DEF q, n
<1>10. Length(q, size) = n - 1
  BY <1>1, <1>6, <1>7, <1>8
<1>11. /\ Contents(q, size) \in Seq(Entries)
       /\ Len(Contents(q, size)) = n - 1
       /\ \A i \in 1 .. n - 1 : Contents(q, size)[i] = q.buf[Slot(q, size, i)]
  BY <1>5, <1>10, ContentsIs
<1>12. /\ Contents(r, size) \in Seq(Entries)
       /\ Len(Contents(r, size)) = n
       /\ \A i \in 1 .. n : Contents(r, size)[i] = r.buf[Slot(r, size, i)]
  BY ContentsIs DEF n
<1>13. Contents(r, size) # << >>
  BY <1>6, <1>12, EmptySeq
<1>14. /\ Head(Contents(r, size)) = Contents(r, size)[1]
       /\ Tail(Contents(r, size)) \in Seq(Entries)
       /\ Len(Tail(Contents(r, size))) = n - 1
       /\ \A i \in 1 .. n - 1 : Tail(Contents(r, size))[i] = Contents(r, size)[i + 1]
  BY <1>12, <1>13, HeadTailProperties
<1>15. Slot(r, size, 1) = r.head
  BY <1>1 DEF Slot
<1>16. Oldest(r) = Head(Contents(r, size))
  <2>1. 1 \in 1 .. n
    BY <1>6
  <2>2. Contents(r, size)[1] = r.buf[r.head]
    BY <1>12, <1>15, <2>1
  <2>. QED
    BY <1>14, <2>2 DEF Oldest
<1>17. \A i \in 1 .. n - 1 : Slot(q, size, i) = Slot(r, size, i + 1)
  BY <1>1, <1>6, <1>8 DEF Slot
<1>18. \A i \in 1 .. n - 1 : Contents(q, size)[i] = Tail(Contents(r, size))[i]
  <2>. SUFFICES ASSUME NEW i \in 1 .. n - 1
                PROVE  Contents(q, size)[i] = Tail(Contents(r, size))[i]
    OBVIOUS
  <2>1. i + 1 \in 1 .. n
    BY <1>6
  <2>. QED
    BY <1>8, <1>11, <1>12, <1>14, <1>17, <2>1
<1>19. Contents(q, size) = Tail(Contents(r, size))
  BY <1>11, <1>14, <1>18, SeqEqual
<1>. QED
  BY <1>5, <1>9, <1>13, <1>16, <1>19 DEF q

-----------------------------------------------------------------------------
(* The invariant.                                                          *)

TypeInv ==
  /\ held \subseteq Keys
  /\ numlock \in BOOLEAN
  /\ dialog \in BOOLEAN
  /\ key_states \in [Keys -> BOOLEAN]
  /\ shortcut \in Keys \cup FnKeys \cup {NoKey}
  /\ key_buf \in Rings(KeyBufSize, KeyEntries)
  /\ mouse_buf \in Rings(MouseBufSize, SUBSET Buttons)
  /\ cur_mousebut \subseteq Buttons
  /\ motion \in -MaxMotion .. MaxMotion
  /\ guestDown \subseteq Codes
  /\ guestButtons \subseteq Buttons
  /\ lastKey \in KeyEntries
  /\ lostKeys \in BOOLEAN

\* Code c is never released from entry i on.
NotReleased(c, q, i) == \A j \in i .. Len(q) : q[j] # Release(c)

\* The keys the guest will believe to be down when it has read the entries q.
AfterReading(down, q) ==
  {c \in Codes :
     \/ c \in down /\ NotReleased(c, q, 1)
     \/ \E i \in 1 .. Len(q) : q[i] = Press(c) /\ NotReleased(c, q, i + 1)}

KeyWaiting == Contents(key_buf, KeyBufSize)

MouseWaiting == Contents(mouse_buf, MouseBufSize)

CodesHeld == {Code(k) : k \in held}

KeysInv ==
  ~lostKeys =>
    /\ \A k \in Keys : key_states[k] <=> k \in held
    /\ AfterReading(guestDown, KeyWaiting) \subseteq CodesHeld

ButtonsInv ==
  MouseWaiting # << >> => MouseWaiting[Len(MouseWaiting)] = cur_mousebut

Inv == TypeInv /\ KeysInv /\ ButtonsInv

-----------------------------------------------------------------------------
(* What is left of the keys.                                               *)

LEMMA EntryFacts ==
  /\ \A c \in Codes : Press(c) \in KeyEntries /\ Release(c) \in KeyEntries
  /\ \A e \in KeyEntries : e.code \in Codes /\ (e = Press(e.code) \/ e = Release(e.code))
  /\ \A e \in KeyEntries : e.press <=> e = Press(e.code)
  /\ \A e \in KeyEntries, c \in Codes : e = Release(c) <=> ~e.press /\ e.code = c
  /\ \A e \in KeyEntries, c \in Codes : e = Press(c) <=> e.press /\ e.code = c
BY DEF KeyEntries, Press, Release

LEMMA ReadNothing ==
  ASSUME NEW down \in SUBSET Codes
  PROVE  AfterReading(down, << >>) = down
BY DEF AfterReading, NotReleased

\* An entry put behind the others is the last to count.
LEMMA ReadOneMore ==
  ASSUME NEW down \in SUBSET Codes, NEW q \in Seq(KeyEntries), NEW e \in KeyEntries
  PROVE  AfterReading(down, Append(q, e)) = Noted(AfterReading(down, q), e)
<1>. DEFINE s == Append(q, e)
            n == Len(q)
<1>1. /\ n \in Nat /\ Len(s) = n + 1
      /\ \A i \in 1 .. n : s[i] = q[i]
      /\ s[n + 1] = e
  BY AppendProperties, LenProperties
<1>. HIDE DEF s
<1>2. ASSUME NEW c \in Codes, NEW i \in 1 .. n + 1
      PROVE  NotReleased(c, s, i) <=> NotReleased(c, q, i) /\ e # Release(c)
  <2>1. i \in 1 .. n + 1 /\ \A j \in i .. n + 1 : j \in i .. n \/ j = n + 1
    BY <1>1, <1>2
  <2>2. i .. n \subseteq i .. n + 1 /\ i .. n \subseteq 1 .. n /\ n + 1 \in i .. n + 1
    BY <1>1, <1>2
  <2>. QED
    BY <1>1, <2>1, <2>2 DEF NotReleased
<1>3. \A c \in Codes : NotReleased(c, s, n + 2)
  BY <1>1 DEF NotReleased
<1>4. 1 .. n + 1 = (1 .. n) \cup {n + 1} /\ 1 \in 1 .. n + 1 /\ n + 1 + 1 = n + 2
  BY <1>1
<1>5. \A i \in 1 .. n : i + 1 \in 1 .. n + 1
  BY <1>1
<1>6. ASSUME NEW c \in Codes
      PROVE  c \in AfterReading(down, s) <=> c \in Noted(AfterReading(down, q), e)
  <2>1. c \in AfterReading(down, s) <=>
          \/ c \in down /\ NotReleased(c, s, 1)
          \/ \E i \in 1 .. n : s[i] = Press(c) /\ NotReleased(c, s, i + 1)
          \/ e = Press(c)
    BY <1>1, <1>3, <1>4 DEF AfterReading
  <2>2. c \in AfterReading(down, s) <=>
          \/ c \in AfterReading(down, q) /\ e # Release(c)
          \/ e = Press(c)
    BY <1>1, <1>2, <1>4, <1>5, <2>1 DEF AfterReading
  <2>. QED
    BY <2>2, EntryFacts DEF Noted
<1>7. /\ AfterReading(down, s) \subseteq Codes
      /\ Noted(AfterReading(down, q), e) \subseteq Codes
  BY EntryFacts DEF AfterReading, Noted
<1>. QED
  BY <1>6, <1>7 DEF s

\* An entry read counts in the guest's table as it did in the buffer.
LEMMA ReadTheFirst ==
  ASSUME NEW down \in SUBSET Codes, NEW q \in Seq(KeyEntries), q # << >>
  PROVE  AfterReading(Noted(down, Head(q)), Tail(q)) = AfterReading(down, q)
<1>. DEFINE t == Tail(q)
            e == Head(q)
            n == Len(t)
<1>1. /\ n \in Nat /\ Len(q) = n + 1 /\ e \in KeyEntries /\ q[1] = e
      /\ \A i \in 1 .. n : t[i] = q[i + 1]
  <2>1. t \in Seq(KeyEntries) /\ Len(q) \in Nat /\ Len(t) \in Nat
    BY HeadTailProperties, LenProperties
  <2>. QED
    BY <2>1, HeadTailProperties
<1>. HIDE DEF t, e, n
<1>2. n = Len(t)
  BY DEF n
<1>3. ASSUME NEW c \in Codes, NEW i \in 1 .. n + 1
      PROVE  NotReleased(c, t, i) <=> NotReleased(c, q, i + 1)
  <2>1. \A j \in i .. n : j + 1 \in i + 1 .. n + 1 /\ j \in 1 .. n
    BY <1>1, <1>3
  <2>2. \A j \in i + 1 .. n + 1 : j - 1 \in i .. n /\ j - 1 + 1 = j /\ j - 1 \in 1 .. n
    BY <1>1, <1>3
  <2>3. ASSUME NotReleased(c, t, i), NEW j \in i + 1 .. n + 1
        PROVE  q[j] # Release(c)
    <3>1. t[j - 1] # Release(c)
      BY <1>2, <2>2, <2>3 DEF NotReleased
    <3>2. t[j - 1] = q[j]
      BY <1>1, <2>2
    <3>. QED
      BY <3>1, <3>2
  <2>4. ASSUME NotReleased(c, q, i + 1), NEW j \in i .. n
        PROVE  t[j] # Release(c)
    BY <1>1, <2>1, <2>4 DEF NotReleased
  <2>. QED
    BY <1>1, <1>2, <2>3, <2>4 DEF NotReleased
<1>4. ASSUME NEW c \in Codes
      PROVE  NotReleased(c, q, 1) <=> e # Release(c) /\ NotReleased(c, q, 2)
  <2>1. \A j \in 1 .. n + 1 : j = 1 \/ j \in 2 .. n + 1
    BY <1>1
  <2>2. 1 \in 1 .. n + 1 /\ 2 .. n + 1 \subseteq 1 .. n + 1
    BY <1>1
  <2>. QED
    BY <1>1, <2>1, <2>2 DEF NotReleased
<1>5. ASSUME NEW c \in Codes
      PROVE  c \in AfterReading(Noted(down, e), t) <=> c \in AfterReading(down, q)
  <2>. DEFINE Later(i) == q[i] = Press(c) /\ NotReleased(c, q, i + 1)
  <2>1. c \in AfterReading(down, q) <=>
          \/ c \in down /\ e # Release(c) /\ NotReleased(c, q, 2)
          \/ \E i \in 1 .. n + 1 : Later(i)
    BY <1>1, <1>4 DEF AfterReading
  <2>2. (\E i \in 1 .. n + 1 : Later(i)) <=>
          \/ e = Press(c) /\ NotReleased(c, q, 2)
          \/ \E i \in 1 .. n : Later(i + 1)
    <3>1. \A i \in 1 .. n : i + 1 \in 1 .. n + 1
      BY <1>1
    <3>2. \A i \in 1 .. n + 1 : i = 1 \/ (i - 1 \in 1 .. n /\ i - 1 + 1 = i)
      BY <1>1
    <3>3. 1 \in 1 .. n + 1 /\ (Later(1) <=> e = Press(c) /\ NotReleased(c, q, 2))
      BY <1>1
    <3>. HIDE DEF Later
    <3>. QED
      BY <3>1, <3>2, <3>3
  <2>3. \A i \in 1 .. n : t[i] = Press(c) /\ NotReleased(c, t, i + 1) <=> Later(i + 1)
    <3>1. \A i \in 1 .. n : i + 1 \in 1 .. n + 1
      BY <1>1
    <3>. QED
      BY <1>1, <1>3, <3>1
  <2>4. NotReleased(c, t, 1) <=> NotReleased(c, q, 2)
    <3>1. 1 \in 1 .. n + 1 /\ 1 + 1 = 2
      BY <1>1
    <3>. QED
      BY <1>3, <3>1
  <2>5. c \in Noted(down, e) <=> (c \in down /\ e # Release(c)) \/ e = Press(c)
    BY <1>1, EntryFacts DEF Noted
  <2>. HIDE DEF Later
  <2>6. c \in AfterReading(Noted(down, e), t) <=>
          \/ c \in Noted(down, e) /\ NotReleased(c, t, 1)
          \/ \E i \in 1 .. n : t[i] = Press(c) /\ NotReleased(c, t, i + 1)
    BY <1>2 DEF AfterReading
  <2>. QED
    BY <2>1, <2>2, <2>3, <2>4, <2>5, <2>6
<1>6. AfterReading(Noted(down, e), t) = AfterReading(down, q)
  BY <1>5 DEF AfterReading
<1>. QED
  BY <1>6 DEF e, t

LEMMA ReadForgotten ==
  ASSUME NEW down, NEW q
  PROVE  AfterReading({}, q) \subseteq AfterReading(down, q)
BY DEF AfterReading

-----------------------------------------------------------------------------
(* What a step does to the buffers.                                        *)

LEMMA Waiting ==
  ASSUME TypeInv
  PROVE  /\ KeyWaiting \in Seq(KeyEntries) /\ MouseWaiting \in Seq(SUBSET Buttons)
         /\ Len(KeyWaiting) = Length(key_buf, KeyBufSize)
         /\ IsEmpty(key_buf) <=> KeyWaiting = << >>
         /\ IsEmpty(mouse_buf) <=> MouseWaiting = << >>
<1>1. /\ KeyBufSize \in Nat /\ KeyBufSize > 1
      /\ MouseBufSize \in Nat /\ MouseBufSize > 1
      /\ key_buf \in Rings(KeyBufSize, KeyEntries)
      /\ mouse_buf \in Rings(MouseBufSize, SUBSET Buttons)
  BY InputAssumption DEF TypeInv
<1>2. /\ KeyWaiting \in Seq(KeyEntries)
      /\ Len(KeyWaiting) = Length(key_buf, KeyBufSize)
      /\ Length(key_buf, KeyBufSize) = 0 <=> IsEmpty(key_buf)
  BY <1>1, ContentsIs, LengthIs DEF KeyWaiting
<1>3. /\ MouseWaiting \in Seq(SUBSET Buttons)
      /\ Len(MouseWaiting) = Length(mouse_buf, MouseBufSize)
      /\ Length(mouse_buf, MouseBufSize) = 0 <=> IsEmpty(mouse_buf)
  BY <1>1, ContentsIs, LengthIs DEF MouseWaiting
<1>. QED
  BY <1>2, <1>3, EmptySeq

\* A key event goes behind those that wait; if it does not, lostKeys says so.
LEMMA SendOne ==
  ASSUME TypeInv, NEW e \in KeyEntries, PressSTKey(e)
  PROVE  /\ key_buf' \in Rings(KeyBufSize, KeyEntries)
         /\ lastKey' \in KeyEntries /\ lostKeys' \in BOOLEAN
         /\ KeyFifo!Put(e)
         /\ ~lostKeys' => ~lostKeys /\ KeyWaiting' = Append(KeyWaiting, e)
<1>1. KeyBufSize \in Nat /\ KeyBufSize > 1 /\ key_buf \in Rings(KeyBufSize, KeyEntries)
  BY InputAssumption DEF TypeInv
<1>2. /\ key_buf' = Put(key_buf, KeyBufSize, e)
      /\ lastKey' = e
      /\ lostKeys' = (lostKeys \/ Full(key_buf, KeyBufSize))
  BY DEF PressSTKey
<1>3. /\ Put(key_buf, KeyBufSize, e) \in Rings(KeyBufSize, KeyEntries)
      /\ Contents(Put(key_buf, KeyBufSize, e), KeyBufSize) =
           IF Length(key_buf, KeyBufSize) = KeyBufSize - 1 THEN << >>
           ELSE Append(Contents(key_buf, KeyBufSize), e)
  BY <1>1, PutContents
<1>4. Len(KeyWaiting) = Length(key_buf, KeyBufSize)
  BY Waiting
<1>5. KeyWaiting' = IF Length(key_buf, KeyBufSize) = KeyBufSize - 1 THEN << >>
                    ELSE Append(KeyWaiting, e)
  BY <1>2, <1>3 DEF KeyWaiting
<1>6. KeyFifo!Put(e)
  BY <1>2, <1>4, <1>5 DEF KeyFifo!Put, KeyFifo!Write, KeyWaiting
<1>7. ~lostKeys' => ~lostKeys /\ KeyWaiting' = Append(KeyWaiting, e)
  BY <1>2, <1>5 DEF Full
<1>8. lostKeys' \in BOOLEAN
  BY <1>2 DEF TypeInv
<1>. QED
  BY <1>2, <1>3, <1>6, <1>7, <1>8

LEMMA SendTwo ==
  ASSUME TypeInv, NEW e \in KeyEntries, NEW f \in KeyEntries, PressTwoSTKeys(e, f)
  PROVE  /\ key_buf' \in Rings(KeyBufSize, KeyEntries)
         /\ lastKey' \in KeyEntries /\ lostKeys' \in BOOLEAN
         /\ KeyFifo!PutTwo(e, f)
         /\ ~lostKeys' => ~lostKeys /\ KeyWaiting' = Append(Append(KeyWaiting, e), f)
<1>. DEFINE first == Put(key_buf, KeyBufSize, e)
<1>1. KeyBufSize \in Nat /\ KeyBufSize > 1 /\ key_buf \in Rings(KeyBufSize, KeyEntries)
  BY InputAssumption DEF TypeInv
<1>2. /\ key_buf' = Put(first, KeyBufSize, f)
      /\ lastKey' = f
      /\ lostKeys' = (lostKeys \/ Full(key_buf, KeyBufSize) \/ Full(first, KeyBufSize))
  BY DEF PressTwoSTKeys
<1>3. /\ first \in Rings(KeyBufSize, KeyEntries)
      /\ Contents(first, KeyBufSize) =
           IF Length(key_buf, KeyBufSize) = KeyBufSize - 1 THEN << >>
           ELSE Append(Contents(key_buf, KeyBufSize), e)
  BY <1>1, PutContents
<1>. HIDE DEF first
<1>4. /\ Put(first, KeyBufSize, f) \in Rings(KeyBufSize, KeyEntries)
      /\ Contents(Put(first, KeyBufSize, f), KeyBufSize) =
           IF Length(first, KeyBufSize) = KeyBufSize - 1 THEN << >>
           ELSE Append(Contents(first, KeyBufSize), f)
  BY <1>1, <1>3, PutContents
<1>5. /\ Len(KeyWaiting) = Length(key_buf, KeyBufSize)
      /\ Len(Contents(first, KeyBufSize)) = Length(first, KeyBufSize)
  BY <1>1, <1>3, Waiting, ContentsIs
<1>6. KeyFifo!Write(KeyWaiting, e) = Contents(first, KeyBufSize)
  BY <1>3, <1>5 DEF KeyFifo!Write, KeyWaiting
<1>7. KeyFifo!Write(Contents(first, KeyBufSize), f) = KeyWaiting'
  BY <1>2, <1>4, <1>5 DEF KeyFifo!Write, KeyWaiting
<1>8. KeyFifo!PutTwo(e, f)
  BY <1>2, <1>6, <1>7 DEF KeyFifo!PutTwo, KeyWaiting
<1>9. ~lostKeys' => ~lostKeys /\ KeyWaiting' = Append(Append(KeyWaiting, e), f)
  BY <1>2, <1>3, <1>4 DEF Full, KeyWaiting
<1>10. lostKeys' \in BOOLEAN
  BY <1>2 DEF TypeInv
<1>. QED
  BY <1>2, <1>4, <1>8, <1>9, <1>10

LEMMA SendButtons ==
  ASSUME TypeInv, cur_mousebut' \in SUBSET Buttons, PutButtons
  PROVE  /\ mouse_buf' \in Rings(MouseBufSize, SUBSET Buttons)
         /\ MouseFifo!Put(cur_mousebut')
         /\ MouseWaiting' # << >> => MouseWaiting'[Len(MouseWaiting')] = cur_mousebut'
<1>. DEFINE e == cur_mousebut'
<1>1. /\ MouseBufSize \in Nat /\ MouseBufSize > 1
      /\ mouse_buf \in Rings(MouseBufSize, SUBSET Buttons)
  BY InputAssumption DEF TypeInv
<1>2. mouse_buf' = Put(mouse_buf, MouseBufSize, e) /\ e \in SUBSET Buttons
  BY DEF PutButtons
<1>. HIDE DEF e
<1>3. /\ Put(mouse_buf, MouseBufSize, e) \in Rings(MouseBufSize, SUBSET Buttons)
      /\ Contents(Put(mouse_buf, MouseBufSize, e), MouseBufSize) =
           IF Length(mouse_buf, MouseBufSize) = MouseBufSize - 1 THEN << >>
           ELSE Append(Contents(mouse_buf, MouseBufSize), e)
  BY <1>1, <1>2, PutContents
<1>4. /\ MouseWaiting \in Seq(SUBSET Buttons)
      /\ Len(MouseWaiting) = Length(mouse_buf, MouseBufSize)
  BY <1>1, ContentsIs DEF MouseWaiting
<1>5. MouseWaiting' = IF Len(MouseWaiting) = MouseBufSize - 1 THEN << >>
                      ELSE Append(MouseWaiting, e)
  BY <1>2, <1>3, <1>4 DEF MouseWaiting
<1>6. MouseFifo!Put(e)
  BY <1>5 DEF MouseFifo!Put, MouseFifo!Write, MouseWaiting, e
<1>7. MouseWaiting' # << >> => MouseWaiting'[Len(MouseWaiting')] = e
  <2>1. LET s == Append(MouseWaiting, e) IN s[Len(s)] = e
    BY <1>2, <1>4, AppendProperties
  <2>. QED
    BY <1>5, <2>1
<1>. QED
  BY <1>2, <1>3, <1>6, <1>7 DEF e

LEMMA CodeType ==
  ASSUME TypeInv, NEW k \in Keys
  PROVE  /\ Code(k) \in Codes \cup {Unmapped}
         /\ Code(k) # Unmapped =>
              Press(Code(k)) \in KeyEntries /\ Release(Code(k)) \in KeyEntries
         /\ k = CapsLock => Code(k) = CapsCode
         /\ Press(CapsCode) \in KeyEntries /\ Release(CapsCode) \in KeyEntries
<1>1. Code(k) \in Codes \cup {Unmapped}
  BY InputAssumption DEF TypeInv, Code
<1>2. k = CapsLock => Code(k) = CapsCode
  BY InputAssumption DEF TypeInv, Code
<1>. QED
  BY <1>1, <1>2, InputAssumption, EntryFacts

\* What KeyDown and KeyUp may send.
KeysSent ==
  \/ \E e \in KeyEntries : PressSTKey(e)
  \/ \E e, f \in KeyEntries : PressTwoSTKeys(e, f)
  \/ NothingSent

LEMMA KeyDownSends ==
  ASSUME TypeInv, NEW k \in Keys, KeyDown(k)
  PROVE  KeysSent
BY CodeType DEF KeyDown, KeysSent

LEMMA KeyUpSends ==
  ASSUME TypeInv, NEW k \in Keys, KeyUp(k)
  PROVE  KeysSent
BY CodeType DEF KeyUp, KeysSent

LEMMA SentType ==
  ASSUME TypeInv, KeysSent
  PROVE  /\ key_buf' \in Rings(KeyBufSize, KeyEntries)
         /\ lastKey' \in KeyEntries /\ lostKeys' \in BOOLEAN
         /\ [KeyFifo!Next]_<<KeyWaiting, lastKey>>
<1>1. ASSUME NEW e \in KeyEntries, PressSTKey(e)
      PROVE  /\ key_buf' \in Rings(KeyBufSize, KeyEntries)
             /\ lastKey' \in KeyEntries /\ lostKeys' \in BOOLEAN
             /\ KeyFifo!Next
  BY <1>1, SendOne DEF KeyFifo!Next
<1>2. ASSUME NEW e \in KeyEntries, NEW f \in KeyEntries, PressTwoSTKeys(e, f)
      PROVE  /\ key_buf' \in Rings(KeyBufSize, KeyEntries)
             /\ lastKey' \in KeyEntries /\ lostKeys' \in BOOLEAN
             /\ KeyFifo!Next
  BY <1>2, SendTwo DEF KeyFifo!Next
<1>3. CASE NothingSent
  BY <1>3 DEF NothingSent, TypeInv, KeyWaiting
<1>. QED
  BY <1>1, <1>2, <1>3 DEF KeysSent

LEMMA ReadType ==
  ASSUME TypeInv, GetKeyboardEvent
  PROVE  /\ key_buf' \in Rings(KeyBufSize, KeyEntries)
         /\ guestDown' \in SUBSET Codes
         /\ KeyWaiting # << >>
         /\ KeyWaiting' = Tail(KeyWaiting)
         /\ guestDown' = Noted(guestDown, Head(KeyWaiting))
         /\ KeyFifo!Get
<1>1. KeyBufSize \in Nat /\ KeyBufSize > 1 /\ key_buf \in Rings(KeyBufSize, KeyEntries)
  BY InputAssumption DEF TypeInv
<1>2. /\ ~IsEmpty(key_buf)
      /\ key_buf' = Drop(key_buf, KeyBufSize)
      /\ guestDown' = Noted(guestDown, Oldest(key_buf))
      /\ lastKey' = lastKey
  BY DEF GetKeyboardEvent
<1>3. /\ Drop(key_buf, KeyBufSize) \in Rings(KeyBufSize, KeyEntries)
      /\ Oldest(key_buf) \in KeyEntries
      /\ Contents(key_buf, KeyBufSize) # << >>
      /\ Oldest(key_buf) = Head(Contents(key_buf, KeyBufSize))
      /\ Contents(Drop(key_buf, KeyBufSize), KeyBufSize) =
           Tail(Contents(key_buf, KeyBufSize))
  BY <1>1, <1>2, DropContents
<1>4. guestDown' \in SUBSET Codes
  BY <1>2, <1>3, EntryFacts DEF Noted, TypeInv
<1>5. KeyFifo!Get
  BY <1>2, <1>3 DEF KeyFifo!Get
<1>. QED
  BY <1>2, <1>3, <1>4, <1>5 DEF KeyWaiting

LEMMA PollType ==
  ASSUME TypeInv, GetMouseInput
  PROVE  /\ mouse_buf' \in Rings(MouseBufSize, SUBSET Buttons)
         /\ guestButtons' \in SUBSET Buttons
         /\ \/ /\ MouseWaiting = << >> /\ UNCHANGED mouse_buf
               /\ guestButtons' = cur_mousebut
            \/ /\ MouseWaiting # << >>
               /\ MouseWaiting' = Tail(MouseWaiting)
               /\ guestButtons' = Head(MouseWaiting)
               /\ MouseFifo!Get
<1>1. /\ MouseBufSize \in Nat /\ MouseBufSize > 1 /\ KeyBufSize = MouseBufSize
      /\ mouse_buf \in Rings(MouseBufSize, SUBSET Buttons)
  BY InputAssumption DEF TypeInv
<1>2. CASE IsEmpty(mouse_buf)
  BY <1>2, Waiting DEF GetMouseInput, TypeInv
<1>3. CASE ~IsEmpty(mouse_buf)
  <2>1. /\ mouse_buf' = Drop(mouse_buf, MouseBufSize)
        /\ guestButtons' = Oldest(mouse_buf)
        /\ cur_mousebut' = cur_mousebut
    BY <1>1, <1>3 DEF GetMouseInput
  <2>2. /\ Drop(mouse_buf, MouseBufSize) \in Rings(MouseBufSize, SUBSET Buttons)
        /\ Oldest(mouse_buf) \in SUBSET Buttons
        /\ Contents(mouse_buf, MouseBufSize) # << >>
        /\ Oldest(mouse_buf) = Head(Contents(mouse_buf, MouseBufSize))
        /\ Contents(Drop(mouse_buf, MouseBufSize), MouseBufSize) =
             Tail(Contents(mouse_buf, MouseBufSize))
    BY <1>1, <1>3, DropContents
  <2>3. MouseFifo!Get
    BY <2>1, <2>2 DEF MouseFifo!Get
  <2>. QED
    BY <2>1, <2>2, <2>3 DEF MouseWaiting
<1>. QED
  BY <1>2, <1>3

-----------------------------------------------------------------------------

LEMMA InitInv == Init => Inv
<1>. SUFFICES ASSUME Init PROVE Inv
  OBVIOUS
<1>1. TypeInv
  <2>1. /\ 0 \in Indices(KeyBufSize) /\ 0 \in Indices(MouseBufSize)
        /\ Release(CapsCode) \in KeyEntries
    BY InputAssumption, EntryFacts DEF Indices
  <2>2. /\ EmptyRing(KeyBufSize, Release(CapsCode)) \in Rings(KeyBufSize, KeyEntries)
        /\ EmptyRing(MouseBufSize, {}) \in Rings(MouseBufSize, SUBSET Buttons)
    BY <2>1 DEF EmptyRing, Rings
  <2>3. motion \in -MaxMotion .. MaxMotion
    BY InputAssumption DEF Init
  <2>4. key_states \in [Keys -> BOOLEAN]
    BY DEF Init
  <2>. QED
    BY <2>1, <2>2, <2>3, <2>4 DEF Init, TypeInv
<1>2. IsEmpty(key_buf) /\ IsEmpty(mouse_buf)
  BY DEF Init, EmptyRing, IsEmpty
<1>3. KeyWaiting = << >> /\ MouseWaiting = << >>
  BY <1>1, <1>2, Waiting
<1>4. AfterReading(guestDown, KeyWaiting) = {}
  BY <1>3, ReadNothing DEF Init
<1>5. \A k \in Keys : key_states[k] <=> k \in held
  BY DEF Init
<1>. QED
  BY <1>1, <1>3, <1>4, <1>5 DEF Inv, KeysInv, ButtonsInv

LEMMA TypeNext == TypeInv /\ [Next]_vars => TypeInv'
<1>. SUFFICES ASSUME TypeInv, [Next]_vars PROVE TypeInv'
  OBVIOUS
<1>1. ASSUME NEW k \in Keys, KeyDown(k) PROVE TypeInv'
  <2>1. /\ key_buf' \in Rings(KeyBufSize, KeyEntries)
        /\ lastKey' \in KeyEntries /\ lostKeys' \in BOOLEAN
    BY <1>1, KeyDownSends, SentType
  <2>2. /\ held' = held \cup {k}
        /\ key_states' = [key_states EXCEPT ![k] = TRUE]
        /\ shortcut' \in {k, shortcut}
        /\ UNCHANGED <<numlock, dialog, mouseVars, guestVars>>
    BY <1>1 DEF KeyDown
  <2>. QED
    BY <1>1, <2>1, <2>2 DEF TypeInv, mouseVars, guestVars
<1>2. ASSUME NEW k \in Keys, KeyUp(k) PROVE TypeInv'
  <2>1. /\ key_buf' \in Rings(KeyBufSize, KeyEntries)
        /\ lastKey' \in KeyEntries /\ lostKeys' \in BOOLEAN
    BY <1>2, KeyUpSends, SentType
  <2>2. /\ held' = held \ {k}
        /\ key_states' = [key_states EXCEPT ![k] = FALSE]
        /\ UNCHANGED <<numlock, dialog, shortcut, mouseVars, guestVars>>
    BY <1>2 DEF KeyUp
  <2>. QED
    BY <1>2, <2>1, <2>2 DEF TypeInv, mouseVars, guestVars
<1>3. ASSUME NEW k \in Keys, DialogEats(k) PROVE TypeInv'
  BY <1>3 DEF DialogEats, TypeInv, mouseVars, guestVars
<1>4. ASSUME NEW k \in FnKeys, FnKeyDown(k) PROVE TypeInv'
  BY <1>4 DEF FnKeyDown, TypeInv, keyVars, mouseVars, guestVars
<1>5. CASE NumLockDown
  BY <1>5 DEF NumLockDown, TypeInv, mouseVars, guestVars
<1>6. ASSUME NEW b \in Buttons, MousePress(b) PROVE TypeInv'
  <2>1. cur_mousebut' \in SUBSET Buttons
    BY <1>6 DEF MousePress, TypeInv
  <2>2. mouse_buf' \in Rings(MouseBufSize, SUBSET Buttons)
    BY <1>6, <2>1, SendButtons DEF MousePress
  <2>. QED
    BY <1>6, <2>1, <2>2 DEF MousePress, TypeInv, keyVars, guestVars
<1>7. ASSUME NEW b \in Buttons, MouseRelease(b) PROVE TypeInv'
  <2>1. cur_mousebut' \in SUBSET Buttons
    BY <1>7 DEF MouseRelease, TypeInv
  <2>2. mouse_buf' \in Rings(MouseBufSize, SUBSET Buttons)
    BY <1>7, <2>1, SendButtons DEF MouseRelease
  <2>. QED
    BY <1>7, <2>1, <2>2 DEF MouseRelease, TypeInv, keyVars, guestVars
<1>8. ASSUME NEW d \in {-1, 1}, MouseMotion(d) PROVE TypeInv'
  BY <1>8 DEF MouseMotion, TypeInv, keyVars, guestVars
<1>9. CASE GetMouseInput
  <2>1. /\ mouse_buf' \in Rings(MouseBufSize, SUBSET Buttons)
        /\ guestButtons' \in SUBSET Buttons
    BY <1>9, PollType
  <2>2. motion' \in -MaxMotion .. MaxMotion
    BY <1>9, InputAssumption DEF GetMouseInput
  <2>. QED
    BY <1>9, <2>1, <2>2 DEF GetMouseInput, TypeInv, keyVars
<1>10. CASE GetKeyboardEvent
  <2>1. key_buf' \in Rings(KeyBufSize, KeyEntries) /\ guestDown' \in SUBSET Codes
    BY <1>10, ReadType
  <2>. QED
    BY <1>10, <2>1 DEF GetKeyboardEvent, TypeInv, mouseVars
<1>11. CASE CheckKeys
  BY <1>11 DEF CheckKeys, TypeInv, keyVars, mouseVars, guestVars
<1>12. CASE CloseDialog
  BY <1>12 DEF CloseDialog, TypeInv, keyVars, mouseVars, guestVars
<1>13. CASE UNCHANGED vars
  BY <1>13 DEF TypeInv, vars, keyVars, mouseVars, guestVars
<1>. QED
  BY <1>1, <1>2, <1>3, <1>4, <1>5, <1>6, <1>7, <1>8, <1>9, <1>10, <1>11, <1>12, <1>13 DEF Next

\* An entry counts as the last word on its code.
LEMMA NotedIs ==
  ASSUME NEW codes, NEW c
  PROVE  /\ Noted(codes, Press(c)) = codes \cup {c}
         /\ Noted(codes, Release(c)) = codes \ {c}
BY DEF Noted, Press, Release

LEMMA KeyDownKeeps ==
  ASSUME TypeInv, KeysInv, NEW k \in Keys, KeyDown(k)
  PROVE  KeysInv'
<1>. SUFFICES ASSUME ~lostKeys'
              PROVE  /\ \A j \in Keys : key_states'[j] <=> j \in held'
                     /\ AfterReading(guestDown, KeyWaiting)' \subseteq CodesHeld'
  BY DEF KeysInv
<1>1. /\ held' = held \cup {k} /\ numlock' = numlock /\ guestDown' = guestDown
      /\ key_states' = [key_states EXCEPT ![k] = TRUE]
      /\ \/ Code(k) # Unmapped /\ PressSTKey(Press(Code(k)))
         \/ NothingSent
  BY DEF KeyDown, guestVars
<1>2. CodesHeld' = CodesHeld \cup {Code(k)}
  BY <1>1 DEF CodesHeld, Code
<1>3. /\ ~lostKeys
      /\ AfterReading(guestDown, KeyWaiting)' \subseteq
           AfterReading(guestDown, KeyWaiting) \cup {Code(k)}
  <2>1. CASE NothingSent
    BY <1>1, <2>1 DEF NothingSent, KeyWaiting
  <2>2. CASE Code(k) # Unmapped /\ PressSTKey(Press(Code(k)))
    <3>1. Press(Code(k)) \in KeyEntries
      BY <2>2, CodeType
    <3>2. ~lostKeys /\ KeyWaiting' = Append(KeyWaiting, Press(Code(k)))
      BY <2>2, <3>1, SendOne
    <3>3. AfterReading(guestDown, Append(KeyWaiting, Press(Code(k)))) =
            Noted(AfterReading(guestDown, KeyWaiting), Press(Code(k)))
      BY <3>1, ReadOneMore, Waiting DEF TypeInv
    <3>. QED
      BY <1>1, <3>2, <3>3, NotedIs
  <2>. QED
    BY <1>1, <2>1, <2>2
<1>4. \A j \in Keys : key_states'[j] <=> j \in held'
  BY <1>1, <1>3 DEF KeysInv, TypeInv
<1>. QED
  BY <1>2, <1>3, <1>4 DEF KeysInv

LEMMA KeyUpKeeps ==
  ASSUME TypeInv, KeysInv, NEW k \in Keys, KeyUp(k)
  PROVE  KeysInv'
<1>. SUFFICES ASSUME ~lostKeys'
              PROVE  /\ \A j \in Keys : key_states'[j] <=> j \in held'
                     /\ AfterReading(guestDown, KeyWaiting)' \subseteq CodesHeld'
  BY DEF KeysInv
<1>. DEFINE c == Code(k)
            before == AfterReading(guestDown, KeyWaiting)
<1>1. /\ held' = held \ {k} /\ numlock' = numlock /\ guestDown' = guestDown
      /\ key_states' = [key_states EXCEPT ![k] = FALSE]
      /\ k \in held
  BY DEF KeyUp, guestVars
<1>2. CodesHeld \ {c} \subseteq CodesHeld'
  BY <1>1 DEF CodesHeld, Code
<1>3. /\ c \in Codes \cup {Unmapped} /\ Unmapped \notin Codes
      /\ c # Unmapped => Press(c) \in KeyEntries /\ Release(c) \in KeyEntries
      /\ k = CapsLock => c = CapsCode /\ c # Unmapped
  BY CodeType, InputAssumption
<1>4. KeyWaiting \in Seq(KeyEntries) /\ guestDown \in SUBSET Codes /\ before \subseteq Codes
  BY Waiting DEF TypeInv, AfterReading
<1>5. ~lostKeys
  BY KeyUpSends, SendOne, SendTwo DEF KeysSent, NothingSent
<1>6. key_states[k]
  BY <1>1, <1>5 DEF KeysInv
<1>7. AfterReading(guestDown, KeyWaiting)' \subseteq before \ {c}
  <2>1. CASE c = Unmapped
    <3>1. NothingSent
      BY <1>3, <2>1 DEF KeyUp
    <3>. QED
      BY <1>1, <1>3, <1>4, <2>1, <3>1 DEF NothingSent, KeyWaiting
  <2>2. CASE c # Unmapped /\ k # CapsLock
    <3>1. PressSTKey(Release(c))
      BY <1>6, <2>2 DEF KeyUp
    <3>2. KeyWaiting' = Append(KeyWaiting, Release(c))
      BY <1>3, <2>2, <3>1, SendOne
    <3>3. AfterReading(guestDown, Append(KeyWaiting, Release(c))) = Noted(before, Release(c))
      BY <1>3, <1>4, <2>2, ReadOneMore
    <3>. QED
      BY <1>1, <3>2, <3>3, NotedIs
  <2>3. CASE k = CapsLock
    <3>1. PressTwoSTKeys(Press(c), Release(c)) /\ c # Unmapped
      BY <1>3, <1>6, <2>3 DEF KeyUp
    <3>2. KeyWaiting' = Append(Append(KeyWaiting, Press(c)), Release(c))
      BY <1>3, <3>1, SendTwo
    <3>. DEFINE s == Append(KeyWaiting, Press(c))
    <3>3. s \in Seq(KeyEntries) /\ AfterReading(guestDown, s) = Noted(before, Press(c))
      BY <1>3, <1>4, <3>1, ReadOneMore, AppendProperties
    <3>. HIDE DEF s
    <3>4. AfterReading(guestDown, Append(s, Release(c))) =
            Noted(AfterReading(guestDown, s), Release(c))
      BY <1>3, <1>4, <3>1, <3>3, ReadOneMore
    <3>5. AfterReading(guestDown, Append(s, Release(c))) = (before \cup {c}) \ {c}
      BY <3>3, <3>4, NotedIs
    <3>. QED
      BY <1>1, <3>2, <3>5 DEF s
  <2>. QED
    BY <2>1, <2>2, <2>3
<1>8. \A j \in Keys : key_states'[j] <=> j \in held'
  BY <1>1, <1>5 DEF KeysInv, TypeInv
<1>. QED
  BY <1>2, <1>5, <1>7, <1>8 DEF KeysInv

LEMMA NumLockKeeps ==
  ASSUME TypeInv, KeysInv, NumLockDown
  PROVE  KeysInv'
<1>. SUFFICES ASSUME ~lostKeys' PROVE KeysInv'
  BY DEF KeysInv
<1>1. /\ ~lostKeys /\ ~Misread
      /\ UNCHANGED <<held, key_states, key_buf, guestDown>>
  BY DEF NumLockDown, guestVars, TypeInv
<1>2. \A k \in held : Code(k)' = Code(k)
  <2>1. numlock \in BOOLEAN /\ numlock' \in BOOLEAN
    BY DEF NumLockDown, TypeInv
  <2>2. \A k \in held : ScanCode[k][TRUE] = ScanCode[k][FALSE]
    BY <1>1 DEF Misread
  <2>3. \A k \in held : \A n \in {TRUE, FALSE} : ScanCode[k][n] = ScanCode[k][TRUE]
    BY <2>2
  <2>4. BOOLEAN = {TRUE, FALSE}
    OBVIOUS
  <2>5. \A k \in held : \A n \in BOOLEAN : ScanCode[k][n] = ScanCode[k][TRUE]
    BY <2>3, <2>4, Zenon
  <2>6. ASSUME NEW k \in held PROVE ScanCode[k][numlock'] = ScanCode[k][numlock]
    <3>. DEFINE f == ScanCode[k]
                m == numlock
                n == numlock'
    <3>1. m \in BOOLEAN /\ n \in BOOLEAN
      BY <2>1
    <3>2. \A x \in BOOLEAN : f[x] = f[TRUE]
      BY <2>5
    <3>. HIDE DEF f, m, n
    <3>3. f[m] = f[TRUE] /\ f[n] = f[TRUE]
      BY <3>1, <3>2, Zenon
    <3>. QED
      BY <3>3, Zenon DEF f, m, n
  <2>. QED
    BY <2>6 DEF Code
<1>3. CodesHeld' = CodesHeld
  BY <1>1, <1>2 DEF CodesHeld
<1>. QED
  BY <1>1, <1>3 DEF KeysInv, KeyWaiting

LEMMA KeysNext == TypeInv /\ KeysInv /\ [Next]_vars => KeysInv'
<1>. SUFFICES ASSUME TypeInv, KeysInv, [Next]_vars PROVE KeysInv'
  OBVIOUS
<1>1. CASE UNCHANGED <<keyVars, guestDown>>
  BY <1>1 DEF keyVars, KeysInv, KeyWaiting, CodesHeld, Code
<1>2. ASSUME NEW k \in Keys, KeyDown(k) \/ KeyUp(k) \/ DialogEats(k) PROVE KeysInv'
  <2>1. DialogEats(k) => KeysInv'
    BY DEF DialogEats, KeysInv
  <2>. QED
    BY <1>2, <2>1, KeyDownKeeps, KeyUpKeeps
<1>3. CASE GetKeyboardEvent
  <2>1. /\ KeyWaiting # << >> /\ KeyWaiting' = Tail(KeyWaiting)
        /\ guestDown' = Noted(guestDown, Head(KeyWaiting))
        /\ UNCHANGED <<held, numlock, key_states, lostKeys>>
    BY <1>3, ReadType DEF GetKeyboardEvent
  <2>2. AfterReading(Noted(guestDown, Head(KeyWaiting)), Tail(KeyWaiting)) =
          AfterReading(guestDown, KeyWaiting)
    BY <2>1, ReadTheFirst, Waiting DEF TypeInv
  <2>. QED
    BY <2>1, <2>2 DEF KeysInv, CodesHeld, Code
<1>4. CASE CheckKeys
  <2>1. UNCHANGED <<held, numlock, key_states, key_buf, lostKeys>> /\ guestDown' \in {{}, guestDown}
    BY <1>4 DEF CheckKeys, keyVars, guestVars
  <2>2. AfterReading(guestDown', KeyWaiting) \subseteq AfterReading(guestDown, KeyWaiting)
    BY <2>1, ReadForgotten
  <2>. QED
    BY <2>1, <2>2 DEF KeysInv, KeyWaiting, CodesHeld, Code
<1>5. CASE NumLockDown
  BY <1>5, NumLockKeeps
<1>. QED
  BY <1>1, <1>2, <1>3, <1>4, <1>5
     DEF Next, FnKeyDown, MousePress, MouseRelease, MouseMotion, GetMouseInput, CloseDialog,
         vars, guestVars

LEMMA ButtonsNext == TypeInv /\ ButtonsInv /\ [Next]_vars => ButtonsInv'
<1>. SUFFICES ASSUME TypeInv, ButtonsInv, [Next]_vars PROVE ButtonsInv'
  OBVIOUS
<1>1. CASE UNCHANGED <<mouse_buf, cur_mousebut>>
  BY <1>1 DEF ButtonsInv, MouseWaiting
<1>2. ASSUME NEW b \in Buttons, MousePress(b) \/ MouseRelease(b) PROVE ButtonsInv'
  <2>1. cur_mousebut' \in SUBSET Buttons /\ PutButtons
    BY <1>2 DEF MousePress, MouseRelease, TypeInv
  <2>. QED
    BY <2>1, SendButtons DEF ButtonsInv
<1>3. CASE GetMouseInput
  <2>1. CASE UNCHANGED mouse_buf
    BY <1>1, <1>3, <2>1 DEF GetMouseInput
  <2>2. CASE MouseWaiting # << >> /\ MouseWaiting' = Tail(MouseWaiting)
    <3>. DEFINE n == Len(MouseWaiting)
    <3>1. MouseWaiting \in Seq(SUBSET Buttons) /\ cur_mousebut' = cur_mousebut
      BY <1>3, Waiting DEF GetMouseInput
    <3>2. /\ n \in Nat /\ Len(Tail(MouseWaiting)) = n - 1
          /\ Tail(MouseWaiting) \in Seq(SUBSET Buttons)
          /\ \A i \in 1 .. n - 1 : Tail(MouseWaiting)[i] = MouseWaiting[i + 1]
      BY <2>2, <3>1, HeadTailProperties, LenProperties
    <3>3. Tail(MouseWaiting) # << >> => n - 1 \in 1 .. n - 1 /\ n - 1 + 1 = n
      BY <3>2, EmptySeq
    <3>. QED
      BY <2>2, <3>1, <3>2, <3>3 DEF ButtonsInv
  <2>. QED
    BY <1>3, <2>1, <2>2, PollType
<1>. QED
  BY <1>1, <1>2, <1>3
     DEF Next, KeyDown, KeyUp, DialogEats, FnKeyDown, NumLockDown, MouseMotion,
         GetKeyboardEvent, CheckKeys, CloseDialog, vars, mouseVars

LEMMA NextInv == Inv /\ [Next]_vars => Inv'
BY TypeNext, KeysNext, ButtonsNext DEF Inv

\* Inv holds in every state of every behaviour of the host's user.
THEOREM Invariance == Spec => []Inv
<1>. QED
  BY InitInv, NextInv, PTL DEF Spec

\* The variables have their types, for key maps and buffers of any size.
THEOREM TypeCorrect == Spec => []TypeInv
<1>1. Inv => TypeInv
  BY DEF Inv
<1>. QED
  BY <1>1, Invariance, PTL

\* hardware/keymap.c:690-752: no key stays down in the guest's table, for any
\* key map, though several keys share a code and some are not sent.
THEOREM NoKeySticks == Spec => []NoStuckKey
<1>1. Inv => NoStuckKey
  <2>. SUFFICES ASSUME Inv, IsEmpty(key_buf), ~lostKeys PROVE guestDown \subseteq CodesHeld
    BY DEF NoStuckKey, CodesHeld
  <2>1. KeyWaiting = << >>
    BY Waiting DEF Inv
  <2>2. AfterReading(guestDown, << >>) = guestDown
    BY ReadNothing DEF Inv, TypeInv
  <2>. QED
    BY <2>1, <2>2 DEF Inv, KeysInv
<1>. QED
  BY <1>1, Invariance, PTL

\* hardware/input.c:103-118: the buttons the guest ends up with are the
\* current ones.
THEOREM ButtonsAgreeInTheEnd == Spec => ButtonsAgree
<1>1. Inv /\ [Next]_vars =>
        [GetMouseInput /\ IsEmpty(mouse_buf') => guestButtons' = cur_mousebut]_vars
  <2>. SUFFICES ASSUME Inv, [Next]_vars, GetMouseInput, IsEmpty(mouse_buf')
                PROVE  guestButtons' = cur_mousebut
    OBVIOUS
  <2>1. CASE MouseWaiting = << >>
    BY <2>1, PollType DEF Inv
  <2>2. CASE MouseWaiting # << >>
    <3>. DEFINE n == Len(MouseWaiting)
    <3>1. /\ MouseWaiting \in Seq(SUBSET Buttons)
          /\ MouseWaiting' = Tail(MouseWaiting)
          /\ guestButtons' = Head(MouseWaiting)
      BY <2>2, PollType, Waiting DEF Inv
    <3>2. /\ mouse_buf' \in Rings(MouseBufSize, SUBSET Buttons)
          /\ MouseBufSize \in Nat /\ MouseBufSize > 1
      BY PollType, InputAssumption DEF Inv
    <3>3. Len(MouseWaiting') = 0
      BY <3>2, LengthIs, ContentsIs DEF MouseWaiting
    <3>4. n \in Nat /\ n # 0 /\ Len(Tail(MouseWaiting)) = n - 1
      BY <2>2, <3>1, HeadTailProperties, LenProperties, EmptySeq
    <3>5. n = 1
      BY <3>1, <3>3, <3>4
    <3>6. Head(MouseWaiting) = MouseWaiting[1]
      BY <2>2, <3>1
    <3>. QED
      BY <2>2, <3>1, <3>5, <3>6 DEF Inv, ButtonsInv
  <2>. QED
    BY <2>1, <2>2
<1>. QED
  BY <1>1, Invariance, PTL DEF Spec, ButtonsAgree

\* hardware/input.c:69-135, hardware/keymap.c:690-752: each buffer is a queue
\* of what was written, read in order and each entry once, that loses all it
\* holds when it overflows and nothing else, for buffers of any size.
THEOREM BuffersAreFifos == Spec => BuffersInOrder
<1>1. Init => KeyFifo!Init /\ MouseFifo!Init
  <2>. SUFFICES ASSUME Init PROVE KeyFifo!Init /\ MouseFifo!Init
    OBVIOUS
  <2>1. IsEmpty(key_buf) /\ IsEmpty(mouse_buf)
    BY DEF Init, EmptyRing, IsEmpty
  <2>2. KeyWaiting = << >> /\ MouseWaiting = << >>
    BY <2>1, InitInv, Waiting DEF Inv
  <2>3. lastKey \in KeyEntries /\ cur_mousebut \in SUBSET Buttons
    BY InitInv DEF Inv, TypeInv
  <2>. QED
    BY <2>2, <2>3 DEF KeyFifo!Init, MouseFifo!Init, KeyWaiting, MouseWaiting
<1>2. Inv /\ [Next]_vars => [KeyFifo!Next]_<<Contents(key_buf, KeyBufSize), lastKey>>
  <2>. SUFFICES ASSUME TypeInv, [Next]_vars
                PROVE  [KeyFifo!Next]_<<KeyWaiting, lastKey>>
    BY DEF Inv, KeyWaiting
  <2>1. CASE UNCHANGED <<key_buf, lastKey>>
    BY <2>1 DEF KeyWaiting
  <2>2. ASSUME NEW k \in Keys, KeyDown(k) \/ KeyUp(k)
        PROVE  [KeyFifo!Next]_<<KeyWaiting, lastKey>>
    BY <2>2, KeyDownSends, KeyUpSends, SentType
  <2>3. CASE GetKeyboardEvent
    BY <2>3, ReadType DEF KeyFifo!Next
  <2>. QED
    BY <2>1, <2>2, <2>3
       DEF Next, DialogEats, FnKeyDown, NumLockDown, MousePress, MouseRelease, MouseMotion,
           GetMouseInput, CheckKeys, CloseDialog, vars, keyVars
<1>3. Inv /\ [Next]_vars =>
        [MouseFifo!Next]_<<Contents(mouse_buf, MouseBufSize), cur_mousebut>>
  <2>. SUFFICES ASSUME TypeInv, [Next]_vars
                PROVE  [MouseFifo!Next]_<<MouseWaiting, cur_mousebut>>
    BY DEF Inv, MouseWaiting
  <2>1. CASE UNCHANGED <<mouse_buf, cur_mousebut>>
    BY <2>1 DEF MouseWaiting
  <2>2. ASSUME NEW b \in Buttons, MousePress(b) \/ MouseRelease(b)
        PROVE  MouseFifo!Next
    <3>1. cur_mousebut' \in SUBSET Buttons /\ PutButtons
      BY <2>2 DEF MousePress, MouseRelease, TypeInv
    <3>. QED
      BY <3>1, SendButtons DEF MouseFifo!Next
  <2>3. CASE GetMouseInput
    <3>1. UNCHANGED cur_mousebut
      BY <2>3 DEF GetMouseInput
    <3>. QED
      BY <2>1, <2>3, <3>1, PollType DEF MouseFifo!Next
  <2>. QED
    BY <2>1, <2>2, <2>3
       DEF Next, KeyDown, KeyUp, DialogEats, FnKeyDown, NumLockDown, MouseMotion,
           GetKeyboardEvent, CheckKeys, CloseDialog, vars, mouseVars
<1>. QED
  BY <1>1, <1>2, <1>3, Invariance, PTL DEF Spec, BuffersInOrder, KeyFifo!Spec, MouseFifo!Spec
=============================================================================
