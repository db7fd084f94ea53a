------------------------------- MODULE Sound --------------------------------
(***************************************************************************)
(* Sampled sound (hardware/audio.c): Audio_Init loads the samples, the     *)
(* guest starts them with Call_PlaySFX, a cold reset silences the channels *)
(* with Audio_Reset, and SDL's audio thread calls Audio_CallBack for the   *)
(* next frames.  The main thread and the audio thread share wav_channels   *)
(* under the lock of SDL, which SDL itself holds around the callback, so   *)
(* every assignment of the main thread and every channel of a frame is a   *)
(* step of its own here.                                                   *)
(*                                                                         *)
(* Positions and lengths are in bytes, two to a frame.  The levels of a    *)
(* frame are left out; what is kept is which byte of which sample is read. *)
(***************************************************************************)
EXTENDS Integers

CONSTANTS
  MAX_SAMPLES,      \* samples are 0 .. MAX_SAMPLES-1
  MAX_CHANNELS,     \* channels are 0 .. MAX_CHANNELS-1
  SND_FREQ,         \* the loop start of the hyperspace sample
  Hyperspace,       \* 19
  Noise,            \* 23
  Formats,          \* what SDL_LoadWAV may find in a file
  Lengths,          \* how many bytes of sound it may find
  Frames,           \* frames SDL asks for in one callback
  NULL

Samples  == 0 .. MAX_SAMPLES - 1
Channels == 0 .. MAX_CHANNELS - 1

\* S16 and U8 at the right rate, any other format, and the wrong rate.
S16 == "AUDIO_S16"
U8  == "AUDIO_U8"

ASSUME SoundAssumption ==
  /\ MAX_SAMPLES \in Nat /\ MAX_CHANNELS \in Nat \ {0} /\ Frames \in Nat \ {0}
  /\ NULL \notin Samples
  /\ SND_FREQ \in Nat /\ SND_FREQ % 2 = 0
  \* SDL_LoadWAV cuts 16-bit data to whole frames; a sound file is not empty.
  /\ Lengths \subseteq {n \in Nat : n > 0 /\ n % 2 = 0}
  /\ {S16, U8} \subseteq Formats
  /\ Hyperspace # Noise

\* The file of the hyperspace sample goes on beyond the start of its loop.
LongEnough(s, n) == s = Hyperspace => n > SND_FREQ

VARIABLES
  loaded,           \* i: the samples Audio_Init has loaded so far
  spec,             \* desiredAudioSpec's format, as the last file left it
  sfx_buf,          \* what the program knows of each sample
  size,             \* the bytes there are behind sfx_buf[s].buf
  missing,          \* the samples whose file could not be loaded
  device,           \* the SDL device is open
  bPlayingBuffer,   \* sound is not paused
  wav_channels,
  lock,             \* who holds SDL's audio lock: "none", "main", "audio"
  main,             \* what the main thread is doing
  frame,            \* i: frames still to be mixed by the running callback
  chan,             \* j: the channel it comes to next
  lastRead          \* history: where each channel was read last, -1 before

loadVars == <<loaded, spec, sfx_buf, size, missing, device>>
cbVars   == <<frame, chan, lastRead>>
vars     == <<loadVars, bPlayingBuffer, wav_channels, lock, main, cbVars>>

Idle == [op |-> "idle", s |-> 0, c |-> 0]

-----------------------------------------------------------------------------

Init ==
  /\ loaded = 0
  /\ spec = S16
  /\ sfx_buf = [s \in Samples |-> [buf |-> NULL, len |-> 0, loop |-> 0]]
  /\ size = [s \in Samples |-> 0]
  /\ missing = {}
  /\ device \in BOOLEAN
  /\ bPlayingBuffer = FALSE
  /\ wav_channels = [c \in Channels |-> [buf |-> NULL, pos |-> 0, len |-> 0, loop |-> 0]]
  /\ lock = "none"
  /\ main = Idle
  /\ frame = 0
  /\ chan = 0
  /\ lastRead = [c \in Channels |-> -1]

\* Audio_Init has come to its end, or failed before it loaded anything.
Running == ~device \/ loaded = MAX_SAMPLES

\* The loop of a sample, set whatever became of its file.
LoopOf(s) == IF s = Hyperspace THEN SND_FREQ ELSE IF s = Noise THEN 0 ELSE -1

\* check_sample_format, for a buffer of n bytes found with format f: an 8-bit
\* sample is copied to twice the space, any other but S16 is dropped.
check_sample_format(s, f, buf, n) ==
  /\ sfx_buf' = [sfx_buf EXCEPT ![s] =
       [buf  |-> IF f = S16 THEN buf ELSE IF f = U8 THEN s ELSE NULL,
        len  |-> IF f = U8 THEN 2 * n ELSE n,
        loop |-> LoopOf(s)]]
  /\ size' = [size EXCEPT ![s] = IF f = U8 THEN 2 * n ELSE n]

\* Audio_Init: the next sample.  When SDL_LoadWAV fails it leaves the length
\* and the format as they were, and the format is that of the file before.
LoadSample ==
  /\ device /\ loaded < MAX_SAMPLES
  /\ loaded' = loaded + 1
  /\ \/ \E f \in Formats, n \in Lengths :
          /\ LongEnough(loaded, IF f = U8 THEN 2 * n ELSE n)
          /\ spec' = f
          /\ check_sample_format(loaded, f, loaded, n)
          /\ missing' = missing
     \/ /\ spec' = spec
        /\ check_sample_format(loaded, spec, NULL, sfx_buf[loaded].len)
        /\ missing' = missing \cup {loaded}
  /\ bPlayingBuffer' = (loaded' = MAX_SAMPLES)
  /\ UNCHANGED <<device, wav_channels, lock, main, cbVars>>

\* Audio_EnableAudio, by Main_PauseEmulation and Main_UnPauseEmulation.
Audio_EnableAudio(bEnable) ==
  /\ Running /\ main = Idle
  /\ bPlayingBuffer' = bEnable
  /\ UNCHANGED <<loadVars, wav_channels, lock, main, cbVars>>

-----------------------------------------------------------------------------
\* The main thread.

\* Mutant: the lock is taken while the audio thread has it.
LockAtOnce(who) == lock \in {"none", "audio"} /\ lock' = who

SDL_LockAudio(who)   == lock = "none" /\ lock' = who
SDL_UnlockAudio(who) == lock' = "none"

\* The fields of a channel in the order Call_PlaySFX sets them.
AfterField(op) ==
  CASE op = "pos" -> "len" [] op = "len" -> "buf" [] op = "buf" -> "loop" [] OTHER -> "unlock"

CallPlaySFX(s, c) ==
  /\ Running /\ main = Idle
  /\ SDL_LockAudio("main")
  /\ main' = [op |-> "pos", s |-> s, c |-> c]
  /\ UNCHANGED <<loadVars, bPlayingBuffer, wav_channels, cbVars>>

\* One assignment of Call_PlaySFX.
SetField ==
  /\ main.op \in {"pos", "len", "buf", "loop"}
  /\ wav_channels' = [wav_channels EXCEPT ![main.c] =
       LET snd == sfx_buf[main.s]
       IN CASE main.op = "pos" -> [@ EXCEPT !.pos = 0]
            [] main.op = "len" -> [@ EXCEPT !.len = snd.len]
            [] main.op = "buf" -> [@ EXCEPT !.buf = snd.buf]
            [] OTHER           -> [@ EXCEPT !.loop = snd.loop]]
  /\ lastRead' = [lastRead EXCEPT ![main.c] = -1]
  /\ main' = [main EXCEPT !.op = AfterField(main.op)]
  /\ UNCHANGED <<loadVars, bPlayingBuffer, lock, frame, chan>>

\* Audio_Reset, by Reset_Cold.
Audio_Reset ==
  /\ Running /\ main = Idle
  /\ SDL_LockAudio("main")
  /\ main' = [op |-> "reset", s |-> 0, c |-> 0]
  /\ UNCHANGED <<loadVars, bPlayingBuffer, wav_channels, cbVars>>

SilenceChannel ==
  /\ main.op = "reset"
  /\ wav_channels' = [wav_channels EXCEPT ![main.c].buf = NULL]
  /\ main' = IF main.c + 1 \in Channels THEN [main EXCEPT !.c = @ + 1]
                                        ELSE [main EXCEPT !.op = "unlock"]
  /\ UNCHANGED <<loadVars, bPlayingBuffer, lock, cbVars>>

MainUnlocks ==
  /\ main.op = "unlock"
  /\ SDL_UnlockAudio("main")
  /\ main' = Idle
  /\ UNCHANGED <<loadVars, bPlayingBuffer, wav_channels, cbVars>>

-----------------------------------------------------------------------------
\* The audio thread.

\* SDL calls Audio_CallBack, unless it is paused.  When no channel has
\* anything to play the buffer is zeroed and nothing is read.
CallbackBegins ==
  /\ Running /\ device /\ bPlayingBuffer
  /\ frame = 0
  /\ \E c \in Channels : wav_channels[c].buf # NULL
  /\ SDL_LockAudio("audio")
  /\ frame' = Frames
  /\ chan' = 0
  /\ UNCHANGED <<loadVars, bPlayingBuffer, wav_channels, main, lastRead>>

\* Mutants: a sample plays one frame too many; its end is taken for a loop.
AdvanceLate(ch) ==
  LET pos == ch.pos + 2
  IN IF pos <= ch.len THEN [ch EXCEPT !.pos = pos]
     ELSE IF ch.loop # -1 THEN [ch EXCEPT !.pos = ch.loop]
     ELSE [ch EXCEPT !.pos = pos, !.buf = NULL]

AdvanceAgain(ch) ==
  LET pos == ch.pos + 2
  IN IF pos < ch.len THEN [ch EXCEPT !.pos = pos]
     ELSE [ch EXCEPT !.pos = IF ch.loop # -1 THEN ch.loop ELSE 0]

\* What becomes of a channel once the frame at its position has been read.
Advance(ch) ==
  LET pos == ch.pos + 2
  IN IF pos < ch.len THEN [ch EXCEPT !.pos = pos]
     ELSE IF ch.loop # -1 THEN [ch EXCEPT !.pos = ch.loop]
     ELSE [ch EXCEPT !.pos = pos, !.buf = NULL]

\* The body of the inner loop: one channel of one frame.
MixChannel ==
  /\ frame > 0
  /\ IF wav_channels[chan].buf = NULL
     THEN UNCHANGED <<wav_channels, lastRead>>
     ELSE /\ wav_channels' = [wav_channels EXCEPT ![chan] = Advance(@)]
          /\ lastRead' = [lastRead EXCEPT ![chan] = wav_channels[chan].pos]
  /\ IF chan + 1 \in Channels
     THEN chan' = chan + 1 /\ UNCHANGED <<frame, lock>>
     ELSE /\ chan' = 0
          /\ frame' = frame - 1
          /\ IF frame = 1 THEN SDL_UnlockAudio("audio") ELSE UNCHANGED lock
  /\ UNCHANGED <<loadVars, bPlayingBuffer, main>>

-----------------------------------------------------------------------------

AudioThread == CallbackBegins \/ MixChannel
MainThread  == SetField \/ SilenceChannel \/ MainUnlocks

Next ==
  \/ LoadSample
  \/ \E b \in BOOLEAN : Audio_EnableAudio(b)
  \/ \E s \in Samples, c \in Channels : CallPlaySFX(s, c)
  \/ Audio_Reset
  \/ MainThread
  \/ AudioThread

\* The audio thread is driven by the sound card, and a call that has begun is
\* finished by the main thread; nothing makes the guest start a sample.  The
\* lock of SDL is a mutex: a thread that waits for it gets it in the end.
Spec == Init /\ [][Next]_vars /\ SF_vars(AudioThread) /\ WF_vars(MainThread)

-----------------------------------------------------------------------------

\* The callback is about to read a frame of channel c.
Reading(c) == frame > 0 /\ chan = c /\ wav_channels[c].buf # NULL

\* Every frame the callback reads lies inside the sample (audio.c:111), though
\* the channel's four fields are set one after the other by another thread and
\* a sample may be replaced while it plays.  Only a sample whose file could not
\* be loaded is read beyond its end: check_sample_format then applies the
\* format of the file before it and makes a buffer of nothing.
ReadsInside ==
  \A c \in Channels :
    Reading(c) /\ wav_channels[c].buf \notin missing =>
      wav_channels[c].pos + 2 <= size[wav_channels[c].buf]

\* A sound is heard from its first frame on, none left out and none heard
\* twice, and from the start of its loop again after the last (audio.c:108-119).
ReadsInOrder ==
  \A c \in Channels :
    Reading(c) =>
      LET ch == wav_channels[c]
      IN IF lastRead[c] = -1 THEN ch.pos = 0
         ELSE \/ ch.pos = lastRead[c] + 2
              \/ ch.pos = ch.loop /\ lastRead[c] + 2 >= ch.len

Sounding(c) == wav_channels[c].buf # NULL /\ wav_channels[c].loop = -1

\* A sample that does not loop comes to its end, unless the sound is paused for
\* good or the guest starts another on its channel (audio.c:119).
HeardToTheEnd ==
  <>[](device /\ bPlayingBuffer) =>
    \A c \in Channels : Sounding(c) ~> wav_channels[c].buf = NULL \/ lastRead[c] = -1
=============================================================================
