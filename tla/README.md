# Front VM in TLA+

Front VM runs *Frontier: Elite II* on a virtual 68000: `fe2.s`, the game, is
assembled by the repository's own assembler, loaded into an array and executed
by an interpreter derived from Hatari/UAE, which calls back into C for drawing,
sound, files and input. This directory models the program where the order of
things matters - interrupts, timers, pacing, threads, input queues, files - and
the tools around the virtual processor where two tables or two algorithms have
to agree: the emulator's opcodes, two disassemblers and the assembler, labels
and relocations, and the arithmetic the generator prints. TLC checks the models
on small instances; TLAPS proves the most important facts for all.

Line numbers are those of the files under `src/`.

## 1. The system

One thread executes guest instructions and everything else is called from it:
timers (`do_cycles`), the host's clock and events (every 65536 instructions),
the VBL handler, host calls of the guest. Only sound has a thread of its own,
SDL's audio callback. The assembler, the disassembler and the generators are
programs of their own that hand files to each other.

| Component | State | Operations | Interaction | What makes it correct |
|---|---|---|---|---|
| Cycle timers (`int.c`, `events.h`) | `InterruptHandlers`, `nCyclesOver`, the one count and function that are pending | arm from the time of the last interrupt, acknowledge, reset, charge an instruction | called by the loop after each instruction and by the VBL handlers, which arm its only timer | one count, narrowed to a short and half forgotten by a reset, tries a deferred VBL exactly every 100 cycles |
| Execution loop and interrupts (`newcpu.c`, `hatari-glue.c`, `video.c`, `m68000.c`, `input.c`, `main.c`, `reset.c`) | `regs.intmask`, `regs.spcflags`, `requestedInterrupt`, shortcut, quit flag, guest's stack of masks | instruction, `do_specialties`, STOP loop, event poll, VBL, deferred VBL, cold reset | requests are made by host and VBL, consumed by every *test* for one, delivered two instructions later | requests are looked at, handlers nest, VBLs are retried until they occur |
| Frame pacing (`newcpu.c`, `screen.c`) | `last_vbl`, `last_eventpoll`, `lag`, `bTooSlowSoSkipAFlip` | poll, VBL, draw | decides when the loop raises a VBL and whether the guest's VBL handler draws | time is neither lost nor made up; the lag stays bounded; frames are shown |
| Keyboard and mouse (`input.c`, `keymap.c`, `shortcut.c`, `sdlgui.c`) | two ring buffers, `key_states`, buttons, motion | host events put, guest's handler gets | the dialog's loop takes events away; shortcuts are acted on at the next VBL | nothing is reordered; no key stays down |
| GEMDOS host calls (`hostcall.c`) | `FileHandles`, `InternalDTAs`, `DTAIndex`, `pDTA` | open, create, read, write, close, delete, search first/next, reset | called by the guest's file selector, which tests D0 whether the call wrote it or not | streams and handles match; searches read their own lists; saves are kept |
| Sound (`audio.c`) | channels, samples, device | load, play, reset, callback, pause | SDL's thread under its lock | a sample is heard from its start, in order, and never past its end |
| Screen modes, dialog, configuration (`screen.c`, `dialog.c`, `configuration.c`, `sdlgui.c`) | surface, draw function, full-screen flag, two copies of the parameters | enter/leave full screen, apply the dialog, draw | called from the shortcut keys inside the VBL handler; pauses sound | what is drawn fits the surface |
| 68000 core (`gencpu.c` and what it prints, `newcpu.c`) | registers, SR, two stacks | instructions, exceptions | - | values and flags are the processor's; chains of words and nested frames compose |
| Instruction table (`table68k`, `readcpu.c`) | `table68k[65536]` | expand, merge, select | read by the generator and by `disasm.c` | every word has one meaning; words that share a function differ only in what it gathers |
| Assembler (`as68k/`) | labels (an AVL tree), fixups, relocation table, file | two passes over lines | writes the file the loader reads | every label is reached, every pointer relocated once |
| Loader (`loadfe2.c`) | the program in memory | read, relocate | between assembler and emulator | inverse of what was written |
| Disassemblers (`dis68k/`, `disasm.c`) | a line per word | list | what they print is assembled again, or believed in a debugger | a listing says what is executed |
| Drawing, palette and cursor calls (`hostcall.c`, `fe2.c`) | guest memory, palettes | pixel loops | called by the guest | data only |
| Memory banks (`memory.c`, `stMemory.c`) | one array | bank functions | - | addresses decode to one bank |
| Start, helpers, Windows' `scandir` | - | sequential | - | - |

Hard behaviours: a request for an interrupt is *forgotten by testing for it*
(`hatari-glue.c:46`); the VBL handler runs a cold reset or a dialog in its
middle; a VBL is deferred, retried every 100 cycles and may meet the next one;
input interrupts displace VBLs; a channel's four fields are set one by one
while another thread mixes; signed and unsigned clocks are mixed; queues
overflow without a test; host calls that fail leave D0 as it was; a cold reset
comes between any two steps; three programs decode the same words by tables of
their own; a tree is rebalanced by hand; carries are derived from signs.
`PROJECT.json` lists each with its line.

## 2. The modules

Order of reading; each module EXTENDS or INSTANCEs those named.

| Module | Models | Builds on |
|---|---|---|
| `IntTable` | the timer table of `int.c` as operators on a record: what each `Int_*` function the program calls makes of it, a short count (`% 2^w`), `do_cycles` in its two halves | - |
| `RetryTimer` | abstract: a VBL that is refused is tried again every `Delay` cycles | - |
| `VmCore` | the loop, with phases where another party comes in | `IntTable`; refines `RetryTimer` |
| `FramePacer` | the clock arithmetic of the loop, and the skipping of frames | - |
| `RingQueue` | the ring buffers of `input.h` as operators | - |
| `InputQueue` | keys and buttons from host event to the guest's table of keys | `RingQueue`; refines `LossyFifo` twice |
| `LossyFifo` | abstract: a queue of what was written, which loses everything when it overflows | - |
| `GemFiles` | file handles, C streams, host files, name look-up | - |
| `GemSearch` | directory searches | `GemFiles` |
| `GemDos` | the guest's file selector and its host calls, one per step, and a cold reset between any two | `GemSearch` |
| `ScreenModes` | window, full screen, drawing function, options dialog, mouse grab, pausing and the sound device, with a record for what the display's calls change | - |
| `Sound` | samples, channels and the two threads that share them under SDL's lock | - |
| `Table68k` | the lines of `table68k`, their expansion by `build_insn`, the merging of words that share a function, the words the emulator executes | - |
| `Dis68k` | what `dump_code` of the disassembler, and the debugger's `disasm`, make of a word | `Table68k` |
| `As68k` | what one line makes the assembler write | `Dis68k` |
| `Words` | one instruction on its way: fetched, listed, assembled again; a line somebody wrote; a register mask | `As68k` |
| `SymbolTable` | abstract: a name that is defined keeps its value | - |
| `LabelTree` | `dict.c`: the AVL tree with parent pointers and balances | - |
| `Assembler` | the two passes, fixups, the relocation table, and its two readers | `LabelTree`; refines `SymbolTable` |
| `Alu68k` | the generated arithmetic and its flags, for operands of any width | - |
| `Chain68k` | numbers of several words, binary and decimal, and the branches after them | `Alu68k` |
| `Divide68k` | multiplication and division | `Alu68k` |
| `Shift68k` | shifts and rotations by one and by a count, bits, SWAP and EXT, on sets of bits | `Alu68k` |
| `Stack68k` | MOVE, MOVEM, PEA, LINK, calls, exceptions and the two stack pointers | - |
| `MCVmCore`, `MCInput`, `MCGemDos`, `MCWords` | constants for TLC | the module of that name |
| `MCCpu` | the four parts of the processor in one run; `unit` picks the one a behaviour exercises | `Chain68k`, `Divide68k`, `Shift68k`, `Stack68k` |
| `*_proofs` | theorems (section 5) | TLAPS |

**The emulator.** `IntTable`'s record `tab` is `InterruptHandlers` (`used`,
`cycles`), `ActiveInterrupt` (`active`), `nCyclesOver` (`over`),
`PendingInterruptFunction` (`fn`) and `PendingInterruptCount` (`count`).
`VmCore` keeps the C variables under the names `mask`, `spc`, `requested`,
`iters`, `quit`, `shortcut`; the buffers only as numbers of unread entries
(`InputQueue` has their contents); the guest as what it can do to these: where
it is on the way to its set-up, the masks its stack holds and how far its
handlers are. Each phase is a stretch of `m68k_run_2` that one party executes
without another coming in, so an action holds all the calls of its stretch:
`RaiseVbl` tests, requests and defers, `VblEvents` handles an event *and* the
`Input_Update` behind it. `Left` is what `RetryTimer` sees of the table: the count
while the VBL's timer is armed, and the whole delay from the moment the VBL handler
finds, in the phase `raise`, that it has to arm it. `InputQueue` takes a key event
as one step too, with the entry put (two for Caps Lock). `GemDos` takes one step per
host call with the guest's instructions up to the next; D0 is a variable, because calls that return
early do not write it and the guest tests it all the same.

`ScreenModes`' record `s` is `sdlscrn` (`width`, `full`), the mode of
`ScreenDraw.pDrawFunction` (`drawn`), `bInFullScreen`, `prevChosenDisplayMode`
and SDL's grab; `config` and `dialog` are the two copies of the parameters. The
calls of `screen.c` are operators on `s`, composed as the code composes them.
Where the shortcuts come in is `VmCore`'s matter; here they come in any order,
with frames, or the lack of them, in between. `FramePacer` says when a VBL is
due, `VmCore` lets one be due at any poll: every behaviour of the pacer is one
of `VmCore`. `VmCore` says when the guest's input handler runs, `InputQueue`
lets it run at any time the dialog is closed.

`Sound` keeps `wav_channels` field by field. `main` is where the main thread is
in `Call_PlaySFX` or `Audio_Reset`; each assignment is a step, and so is each
channel of each frame in the callback. The lock is the only thing that keeps
them apart, so the model has it where the code calls `SDL_LockAudio` and around
the callback, where SDL has it. Levels of the frames are left out; which byte of
which sample is read is kept.

**The tools.** `Table68k` cuts a word into its five fields. A line of the table
file is a record with what its pattern fixes and the modes it excludes; its
meaning for a word is `build_insn`'s. `Dis68k` has an operator for each block of
`dump_code`, in its order, which is empty when the block breaks out; what
follows the opcode is told apart only as far as the code looks at it (`Follows`).
`As68k` has one for each block of `asm_pass1`. `Assembler` takes one line per
step; of the program's bytes it keeps the places where labels are used, and
addresses count from the start of the code. `labels` is `dict.c`'s tree, each
field by its name; a step of the second pass takes the fixups in the order the
list has them, and reading one entry of the table is a step of the reader.

**The processor.** Each instruction is an operator that gives the value stored
and the flags after it, translated from the lines `gencpu.c` prints (the
generator is the source; there is no generated file in the repository). Values
in `Alu68k` are the residues modulo `2 * Half`, so one text stands for bytes,
words and longs; in `Shift68k` they are sets of bits, so that TLC can take all
of a long. `Chain68k` executes the same instruction on word after word,
`Divide68k` multiplies and then divides, `Shift68k` shifts by one as memory
shifts do, again and again, and compares with one shift by the count;
`Stack68k` enters and leaves in any nesting.

**History variables** (they never guard a step): `frames` in `FramePacer`, the fields
`frame` and `refused` of `s` in `ScreenModes`, `lastKey`, `lostKeys` in
`InputQueue`, `misread` in `GemSearch`, `snapshot`, `disturbed` in `GemDos`,
`lastRead` in `Sound`, `source` and `applied` in `Assembler`, `dst` and `src` in
`Chain68k`, `was`, `by`, `flagsWas` in `Divide68k`, `start`, `f0`, `turned` in
`Shift68k`. `cost` in `Assembler` and `steps` in `Stack68k` are bounds.

## 3. The runs

| Run | Checks | Bounds, and why they are enough |
|---|---|---|
| `vm_core` | `RetryKept`, `RequestSeen`, `Nesting`, `VblAccounted`, refinement `KeepsTime` | all three special guest instructions, masks below, at and above the levels, all shortcuts, buffers of two; the retry delay is three instructions and a poll comes every seven, so VBLs meet a waiting retry in every phase of its delay; a short of 32 values, so that an idle count wraps |
| `vm_live` | `VblKeepsComing`, `InputServed` | the same machine with a guest that uses none of them, under fairness |
| `pacer` | `TimeKept`, `LagBound`, `KeepsUp` | frames of 4 ms, a clock of 59 values (it and the frame have no common factor, so every phase occurs), start-up longer than three frames |
| `input` | `NoStuckKey`, `BuffersInOrder`, `ButtonsAgree` | four keys (a letter, Ctrl, Caps Lock, a keypad key) and both buttons; buffers of three slots, which two entries fill and the third overflows |
| `gemdos` | `StreamsKept`, `HandlesReturned`, `ListingFaithful`, `NothingFails`, `SaveIsKept` | two files that share their name in the guest, and a directory; two handles, two search slots (the ring turns over at once); files of one byte; a selector with room for fewer entries than there are, and every refusal of the host |
| `screen` | `FramesFollow`, `MouseAgrees`, `SoundAgrees` | none: all three modes, the host granting or refusing every full screen and lock, sound on, off or without a device |
| `sound` | `ReadsInside`, `ReadsInOrder`, `HeardToTheEnd` | three samples, one of which loops from its start and one from later; two channels, so that one is replaced while the other plays; lengths of one and two frames, so that the loop of one frame and the end of the first occur; two frames in a callback; files that are missing, 8-bit or of the wrong format in every order |
| `words` | `OneMeaning`, `SharedFunctions`, `ListedAsExecuted`, `RoundTrip`, `EmitsMeant` | none for the words: all 65536, with each of six kinds of words that may follow, and all 65536 register masks in both directions; written lines of every mnemonic, size and kind of operand, immediates on both sides of each limit |
| `assembler` | `Balanced`, `SymbolsKept`, `PointersRelocated`, `LabelsReached` | six labels (enough for single and double rotations at the root and below it), two of them used, before and after they are defined; gaps of 126 (short and word branches), 250 and 251 (distances around 254), 505 (two chained bytes); sources that cost up to six |
| `cpu` | `ChainExact`, `ConditionsHold`, `DivisionExact`, `ManyAsOne`, `SameByAnotherWay`, `UnwindsExactly` | operands of four bits and numbers of two words (the theorems of section 5 are for any width and length, for all values that are shifted and for any nesting), low digits around every correction; all values of a byte and 13 patterns of words and longs shifted by 0 to 63; three frames open, five instructions |
| `picture_fits` | `PictureFits` violated | as `screen` |

In the real program the sizes are 16 (buffers), 100 cycles, 65536 instructions,
20 ms, 2^32, 32 handles, 256 slots, 63 entries, 33 samples, 4 channels and 1024
frames. Nothing in the code tells these from the small ones but their relations,
which the ASSUMEs of the modules state (a delay is a whole number of
instructions and fits a short; the clock holds more than four frames and the
start-up; a handle fits a byte; a sample has an even number of bytes).

**Fairness.** `VmCore`: the loop never blocks, so it takes its next step
(`WF(Next)`); the host's clock goes on, so polls again and again see a new
millisecond and 20 of them (`SF(PollEvents)`, `SF(VblDue)`); the cleared memory
a guest without vectors runs through ends at the program's entry
(`SF(Execute /\ EnableInterrupts)`). Nothing is assumed of input, shortcuts or
SR writes. `FramePacer`: the clock advances (`WF(Poll(d >= 1))`) and the guest
that gets VBLs again and again draws again and again (`SF(Draw)`); the premises
on how far polls are apart are part of the properties. `Sound`: the sound card
drives the audio thread and SDL's lock is a mutex that a waiting thread gets
(`SF(AudioThread)`); a call the main thread has begun it finishes
(`WF(MainThread)`); no sample need ever be started. The other modules assume
none.

## 4. What the runs found

- **A picture larger than the surface** (`picture_fits`). The dialog can change
  the mode and ask for full screen in one; the surface then keeps the old size
  (`screen.c:148`) while the drawing function is the new mode's, until the full
  screen is left. The other way round, a mode chosen while in full screen is
  not shown before it is left.

No doc or test of the repository speaks of what follows, so no run expects it to
fail; the properties name each as an exception, or the model has it.

*Emulator.* A VBL can be lost: `intlev` (`hatari-glue.c:46`) forgets the request
it returns, so `Input_Update`'s test (`input.c:61`) may throw away one requested
a moment before; `VblAccounted` names every way, `VblKeepsComing` shows that
others follow. STOP with a mask of 5 or less never ends (`newcpu.c:1251`). A
cold reset leaves `requestedInterrupt`, and the VBL handler in whose middle it
runs may arm the retry again (`video.c:74`). A search that fails leaves its slot
in use with a list that was freed (`hostcall.c:881`, `891`, `904`), which a reset
frees again. A sample without a file is converted as if it had the format of the
one before, and gets a buffer of no bytes after an 8-bit file (`audio.c:219`;
`missing` in `ReadsInside`). F11 between a change of the mode and the next frame
enters a full screen that `Screen_DrawFrame` leaves at once, with
`bInFullScreen` still set; a surface that cannot be locked under the dialog in
full screen resumes the sound (`SoundAgrees` names the case). `NoStuckKey` does
not count keys whose events the dialog took or whose code Num Lock changed while
down; `SaveIsKept` what the host refuses at `fclose`. DIVS of the smallest long
by -1 is the host's trap.

*Assembler.* `btst #n,label(pc)` counts its displacement from the wrong word; a
short branch to the next instruction has the displacement byte 0, which is a
word branch (`LabelsReached`); a distance between two relocations that leaves 1
when divided by 254, and a relocation of the first long word, cannot be read
back (`Unreadable`); a register list without registers as a destination is tried
for ever (`RoundTrip`); `get_reg` takes d9; `addi.l #label` assembles 0.

*Disassemblers.* Words without a block, such as abcd, tas and chk, are listed as
words the assembler refuses (`NoBlock`); a branch with the displacement byte 255
and the immediate of `btst Dn,#data` are misread (`Misread`); `rtr` does not end
the walk through the code; the debugger's listing calls DBF and SF `ra`.

## 5. What is proved

For every value of the constants that the ASSUMEs allow:

- `FramePacer_proofs`: `TypeCorrect`, `LagBounded`, `FramesKeepTime`. The inductive
  invariant bounds `Behind` by the larger of one frame and the start-up time;
  with it no sum wraps but the clock's own, and the modular equation
  `TimeKept` is kept by every poll. `LagBound` alone is not inductive: the lag
  is bounded only because the time since the last VBL and the lag are together.
- `VmCore_proofs`: `TypeCorrect`, `RequestsSeen`, `HandlersNest`, `RetriesKept`,
  `RetriesOnTime`, `VblsAccounted`. `TypeInv` adds that the set-up is not past its end; `Nesting`
  is inductive over it; `TableInv` adds to `RetryKept` that a count is a multiple
  of the instruction length, so that it runs out at exactly zero, and what a
  reset leaves half done. `RetriesOnTime` is that the loop implements `RetryTimer`:
  `DoCyclesCounts` says that charging an instruction takes it from the timer's
  count or, at exactly zero, tries the VBL; every other action keeps what is left,
  defers, starts over after a cold reset or quits (`NextRetries`). `VblAccounted` is an action property: for each of the
  functions that touch the request or the table (`do_cycles`, `Input_Update`, a
  test for a level, the poll) a lemma says what it does to an outstanding VBL,
  and only the four losses and the delivery are left.
- `InputQueue_proofs`: `BuffersAreFifos`, that each ring implements `LossyFifo`,
  for any size and any entries; `NoKeySticks` and `ButtonsAgreeInTheEnd`, for any
  key map and any keys. `NoStuckKey` speaks only of the moment when all is read,
  so `KeysInv` says at every moment what the guest *will* believe once it has
  read what waits (`AfterReading`, a function of what it believes and of the
  waiting entries). A read does not change that, and a put changes it by one
  key; what keeps it among the keys held is that `key_states` is the set of keys
  held, so that every release gets through.
- `GemDos_proofs`: `StreamsAreKept`, `HandlesAreReturned`,
  `ListingsAreFaithful`, `NothingFailsUnasked`, `SavesAreKept`, for any number of
  handles, streams, search slots, entries and files and any host. `FilesInv` ties
  used entries to open streams; `GuestInv` says that in the middle of a transfer
  exactly the entry of the guest's handle is used, or that the handle is an
  error's word and so outside the table, which is why a failed open that goes
  on to read and close does no harm. `ListInv` follows a search: its slot is
  marked used, its list is the snapshot and not freed, and the listing is as far
  as the slot's next entry. `TransferInv` follows a transfer: the stream behind
  the handle is on the file that was meant, at the right place, open for the
  right direction, and the length the guest goes by is the file's.
- `ScreenModes_proofs`: `TypeCorrect`, `FramesFollowMode`, `MouseIsRight`,
  `SoundIsRight`. `WindowInv` holds what the calls keep whatever the parameters
  are (a surface has the width of the mode it was made for, and a window's
  drawing function is that mode's), `FullInv` what they keep under given ones;
  the split is needed for `Okay`, where the parameters change between two
  calls. `SoundInv` adds that the dialog's copy agrees on the sound and that
  the full screen is not entered under the dialog.
- `Sound_proofs`: `NothingReadBeyond`, `HeardInOrder`. Neither is inductive
  alone: `ThreadsInv` says who is inside the lock, `SamplesInv` what `Audio_Init`
  makes of a file (the length is even and the buffer holds it, a loop starts
  inside it), and `ChannelInv` what a channel is while nobody holds the lock,
  and, for the channel that is being set, of the fields already set. The order
  of the assignments does not matter under the lock, and the proof has no use
  for it.
- `Assembler_proofs`, for any labels, gaps and length of the source:
  `TreeIsBalanced`, `LabelsAreKept` (the tree implements `SymbolTable`),
  `ProgramReachesItsLabels`, `EveryPointerIsRelocated`.
  - The tree. `Good` says that a tree of a set of members is a search tree hung
    together by its parent pointers, and that its nodes have heights of which the
    balances are the differences. `SetInduction` (a set of naturals with 0 and all
    successors has every natural, by the pigeonhole theorem) stands in for the
    library's induction; `TreeInduction` follows from it and shows that `Below`,
    `Height` and `DictGet` find what `Good` says. In the middle of a climb
    (`Climbing`) the node `top` has grown by one and its parent does not know it
    yet; `ClimbOnce`, with its single or double rotation, moves `top` up or ends,
    and since the set below `top` grows there are no more rounds than keys.
  - The two passes. `CodeInv`: a reference is `Valued` (a constant), `Waits` for its
    fixup or is `Done`; the fixups lie in order, apart from each other and behind
    what is patched. `LabelsReached` speaks of the finished program only and says
    nothing of references that wait; that the list is empty at the end does.
  - The relocation table. `PlacesInv` says that there are places `p`, in order and
    one per pointer that is patched, and ends `e` in the table, such that from one
    end to the next the bytes are those of the distance d (`Coded`): the quotient of
    d - 1 by 254 in ones, and the rest. The reader is `Following` the places
    until a distance that is `Misread`, and then `Lost`: it is past a place that it
    never names again, so an unreadable table is never relocated right by luck.
- `Cpu68k_proofs`, in five parts:
  - `ChainIsExact`, `BranchesAreRight`, for operands of any width and numbers of
    any length. A lemma per instruction (`AddWord`, `AddxWord`, ..., `NbcdPair`)
    says that result and carry together are the exact sum or difference of the
    words and the carry that came in; for the decimal ones the digits and their
    corrections are gone through. `ChainInv` carries that along: X is the carry
    out, and Z the zero of *all* words, which holds because the extended
    instructions only ever clear it. `SignInv` says that the sign of a number is
    that of its last word, and `ConditionsFollow` derives every branch condition
    from N, Z, V and C.
  - `DivisionsAreExact`, for words of any width. Quotient and remainder are
    packed into one long and have to be told apart again (`Joined`); the quotient
    the code computes from magnitudes has to be the one that `DivisionExact`
    means, and is because no other leaves a remainder below the divisor with the
    dividend's sign (`OnlyQuotient`); that it does not fit is seen from its upper
    half (`FitsAWord`).
  - `ShiftsAreRepeated`, for every value of 8, 16 and 32 bits where the run takes
    patterns of the larger ones. `Moved`, `CarryOf`, `XOf` and `TurnedOf` give
    bit, C, X and V after n shifts in closed form, with rotations as residues
    modulo the size, or the size and X. `AtOnce` shows that the instruction with
    a count computes these (its reductions of the count and masks of the bits),
    `OnceMore` that one shift by one takes them from n to n + 1, and `ShiftInv`
    is that the run so far has reached them.
  - `DifferentWaysAgree`: a byte's `Number` is a sum over its bits, and `NumberUp`
    says what a shift by one makes of it, so ASL and ROXL agree with ADD and ADDX,
    carry and overflow included; the rest compares bits, by the closed forms above.
  - `StacksUnwind`, for any nesting depth and any register lists. `Restored`
    speaks of the last entry only, and says nothing of the ones beneath; the
    invariant `StackInv` does. `Frame` is what an entry has left in memory and
    between the stack pointers of its moment and of the next, `Stacked` that the
    frames of *all* open entries are still there, each stack pointer no higher
    than at any earlier moment, and `Linked` that A6 points to the last open
    LINK, which is what UNLK goes by and which a MOVEM that reloads A6 as a word
    must not spoil (`AddressesFitAWord`). `Entered` says that a write below what is
    in use disturbs none of it, `Left` that leaving goes back to the moment before.
    MOVEM looks for a register where it was put because its places counted from
    both ends add up (`PlacesMeet`) and no two registers share one (`PlacesDiffer`).

The assumptions are those of the modules. New ones that only the proofs need:
the program has a file handle, the list of the selector has room for more than
two entries, the host has finitely many files, and the constants that stand for
no list and no label are none. All are so in the program (32 handles, 63
entries). Labels are numbered in the order `strcmp` gives them, and are finitely
many.

Only model-checked:

- What `Words` checks: its properties range over a finite table of constants,
  which TLC covers whole; there is no larger instance to prove.
- Every liveness property: TLAPS has no ENABLED.

## 6. What is not modelled

- Drawing, screen conversion, memory banks, string helpers, Windows' own
  `scandir` and `glob`: data transformation without control of its own.
- Of the timer table: `Int_AddRelativeInterrupt`, `Int_RemovePendingInterrupt`,
  `Int_FindCyclesPassed` and the conversions of handlers to ids, which nothing under
  `src/` calls. The table has one timer besides `INTERRUPT_NULL` (`int.h`), so the
  order of several timers is not a question of this program.
- Of the 68000 core: the exceptions 2 to 9 (bus and address error, illegal
  instruction, division by zero, CHK, TRAPV, privilege violation, trace), which
  print the registers and end the emulator before a handler is entered
  (`newcpu.c:681`, `m68000.c:59`); only the division by zero is there, as the end of
  the program (`DivideByZero`). Nor the computation of effective addresses but for
  stacks, CHK, TAS, cycle counts. `m68k_run_1` is never chosen
  (`cpu_compatible` is FALSE), nor are the parts for processors above the 68000.
- Of the assembler: characters, expressions, includes, the dump of the labels;
  `dict_remove` and `dict_free`, which it never calls. Of the disassembler: the
  walk that tells code from data, label names, layout.
- Key debouncing, which the configuration switches off for good. The key maps the
  dialog can choose between, one of them loaded from a file: in `InputQueue` a key
  has one code per state of Num Lock, and a map chosen while a key is down, which
  would give its release another code as Num Lock does, is left out.
- The volume label and the open modes of GEMDOS the guest never asks for, the
  painting of the dialog.
- External, modelled by what the code relies on: SDL's events, clock and audio
  lock, the C library's streams, the host's directory. `PROJECT.json` marks them.

## 7. Plan

Done so far: everything of section 2, and the proofs of every invariant the runs
check but those of `Words`. Left, in order:

1. `EffectiveAddress`: the modes besides the stack's, with the order of their
   reads and writes, and what an exception in the middle leaves.
2. `Walk`: the disassembler's stack of branches still to follow.
