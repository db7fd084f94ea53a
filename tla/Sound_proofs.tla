---------------------------- MODULE Sound_proofs -----------------------------
(***************************************************************************)
(* For any number of samples, channels and frames and any lengths: what    *)
(* the audio thread reads lies inside the sample, and in order.            *)
(*                                                                         *)
(* Neither is inductive alone.  ThreadsInv says who may be inside the lock *)
(* of SDL; SamplesInv what Audio_Init makes of a file; and ChannelInv what *)
(* holds of a channel whenever the audio thread can look at it, and, while *)
(* Call_PlaySFX sets its fields, of those that are set already.            *)
(***************************************************************************)
EXTENDS Sound, TLAPS

Ops == {"idle", "pos", "len", "buf", "loop", "reset", "unlock"}
Setting == {"pos", "len", "buf", "loop"}
Sounds == [buf : Samples \cup {NULL}, len : Nat, loop : Nat \cup {-1}]
ChannelStates == [buf : Samples \cup {NULL}, pos : Nat, len : Nat, loop : Nat \cup {-1}]

TypeOK ==
  /\ loaded \in 0 .. MAX_SAMPLES
  /\ sfx_buf \in [Samples -> Sounds]
  /\ size \in [Samples -> Nat]
  /\ missing \in SUBSET Samples
  /\ device \in BOOLEAN
  /\ wav_channels \in [Channels -> ChannelStates]
  /\ main \in [op : Ops, s : Nat, c : Channels]
  /\ main.op \in Setting => main.s \in Samples
  /\ lock \in {"none", "main", "audio"}
  /\ frame \in Nat
  /\ chan \in Channels
  /\ lastRead \in [Channels -> Int]

\* A call of the guest and a callback are under way with the lock only, and no
\* channel plays before the samples are there.
ThreadsInv ==
  /\ frame > 0 => lock = "audio"
  /\ main.op # "idle" => lock = "main"
  /\ ~Running => main.op = "idle" /\ frame = 0 /\ \A c \in Channels : wav_channels[c].buf = NULL

\* A length and the start of a loop that fit a buffer of n bytes.
Fitting(len, loop, n) ==
  /\ len = n /\ len > 0 /\ len % 2 = 0
  /\ loop # -1 => loop \in Nat /\ loop % 2 = 0 /\ loop < len

SampleInv(s) ==
  LET snd == sfx_buf[s]
  IN /\ snd.buf \in {s, NULL}
     /\ snd.buf # NULL => s < loaded
     /\ snd.buf # NULL /\ s \notin missing => Fitting(snd.len, snd.loop, size[s])

SamplesInv == \A s \in Samples : SampleInv(s)

\* What the audio thread relies on.
Playable(c) ==
  LET ch == wav_channels[c]
  IN ch.buf # NULL =>
       /\ IF lastRead[c] = -1 THEN ch.pos = 0
          ELSE ch.pos = lastRead[c] + 2 \/ (ch.pos = ch.loop /\ lastRead[c] + 2 >= ch.len)
       /\ ch.buf \notin missing =>
            /\ Fitting(ch.len, ch.loop, size[ch.buf])
            /\ ch.pos % 2 = 0 /\ ch.pos < ch.len

\* The fields Call_PlaySFX has set when it comes to op.
Set(c) ==
  LET ch == wav_channels[c]
      snd == sfx_buf[main.s]
  IN /\ main.op \in {"len", "buf", "loop"} => ch.pos = 0 /\ lastRead[c] = -1
     /\ main.op \in {"buf", "loop"} => ch.len = snd.len
     /\ main.op = "loop" => ch.buf = snd.buf

ChannelInv(c) ==
  IF main.op \in Setting /\ main.c = c THEN Set(c) ELSE Playable(c)

ChannelsInv == \A c \in Channels : ChannelInv(c)

Inv == TypeOK /\ ThreadsInv /\ SamplesInv /\ ChannelsInv

-----------------------------------------------------------------------------

LEMMA EvenGap ==
  ASSUME NEW m \in Nat, NEW n \in Nat, m % 2 = 0, n % 2 = 0, m < n
  PROVE  m + 2 <= n
OBVIOUS

LEMMA InitInv == Init => Inv
<1>. SUFFICES ASSUME Init PROVE Inv
  OBVIOUS
<1>. USE DEF Init
<1>1. TypeOK
  BY SoundAssumption DEF TypeOK, Ops, Setting, Sounds, ChannelStates, Idle, Samples, Channels
<1>2. ThreadsInv
  BY DEF ThreadsInv, Idle
<1>3. SamplesInv
  BY DEF SamplesInv, SampleInv
<1>4. ChannelsInv
  BY DEF ChannelsInv, ChannelInv, Playable, Setting, Idle
<1>. QED
  BY <1>1, <1>2, <1>3, <1>4 DEF Inv

\* A step of another kind that leaves the channels and the samples alone.
LEMMA PlayableKept ==
  ASSUME NEW c \in Channels, Playable(c),
         UNCHANGED <<wav_channels, lastRead, missing, size>>
  PROVE  Playable(c)'
BY DEF Playable, Fitting

\* The next sample is loaded, or found missing.
LEMMA LoadSampleInv ==
  ASSUME Inv, LoadSample
  PROVE  Inv'
<1>1. /\ device /\ loaded < MAX_SAMPLES /\ loaded' = loaded + 1
      /\ UNCHANGED <<device, wav_channels, lock, main, cbVars>>
  BY DEF LoadSample
<1>2. loaded \in Samples /\ loaded \in Nat
  BY <1>1, SoundAssumption DEF Inv, TypeOK, Samples
<1>3. ~Running /\ main.op = "idle" /\ frame = 0 /\ \A c \in Channels : wav_channels[c].buf = NULL
  BY <1>1, <1>2, SoundAssumption DEF Running, Inv, TypeOK, ThreadsInv
<1>4. /\ LoopOf(loaded) \in Nat \cup {-1}
      /\ LoopOf(loaded) # -1 => LoopOf(loaded) % 2 = 0
  BY SoundAssumption DEF LoopOf
<1>5. PICK f \in Formats \cup {spec}, buf \in {loaded, NULL}, n \in Nat :
        /\ check_sample_format(loaded, f, buf, n)
        /\ \/ /\ missing' = missing
              /\ n \in Lengths /\ buf = loaded
              /\ LongEnough(loaded, IF f = U8 THEN 2 * n ELSE n)
           \/ missing' = missing \cup {loaded}
  BY <1>1, <1>2, SoundAssumption DEF LoadSample, Inv, TypeOK, Sounds
<1>. DEFINE len == IF f = U8 THEN 2 * n ELSE n
            b == IF f = S16 THEN buf ELSE IF f = U8 THEN loaded ELSE NULL
<1>6. /\ sfx_buf' = [sfx_buf EXCEPT ![loaded] = [buf |-> b, len |-> len, loop |-> LoopOf(loaded)]]
      /\ size' = [size EXCEPT ![loaded] = len]
  BY <1>5 DEF check_sample_format
<1>7. len \in Nat /\ b \in {loaded, NULL}
  BY <1>5
<1>8. loaded \notin missing' => Fitting(len, LoopOf(loaded), len)
  <2>1. SUFFICES ASSUME loaded \notin missing'
                 PROVE  Fitting(len, LoopOf(loaded), len)
    OBVIOUS
  <2>2. n > 0 /\ n % 2 = 0 /\ LongEnough(loaded, len)
    BY <1>5, <2>1, SoundAssumption
  <2>3. len > 0 /\ len % 2 = 0
    BY <1>5, <2>2
  <2>4. LoopOf(loaded) # -1 => LoopOf(loaded) < len
    BY <2>2, <2>3, <1>7 DEF LoopOf, LongEnough
  <2>. QED
    BY <2>3, <2>4, <1>4 DEF Fitting
<1>. HIDE DEF len, b
<1>9. TypeOK'
  <2>1. missing' \in SUBSET Samples
    BY <1>2, <1>5 DEF Inv, TypeOK
  <2>2. sfx_buf' \in [Samples -> Sounds] /\ size' \in [Samples -> Nat]
    BY <1>2, <1>4, <1>6, <1>7 DEF Inv, TypeOK, Sounds
  <2>3. loaded' \in 0 .. MAX_SAMPLES
    BY <1>1, <1>2, SoundAssumption
  <2>. QED
    BY <1>1, <2>1, <2>2, <2>3 DEF Inv, TypeOK, cbVars
<1>10. ThreadsInv'
  BY <1>1, <1>3 DEF Inv, ThreadsInv, cbVars
<1>11. ASSUME NEW s \in Samples PROVE SampleInv(s)'
  <2>1. CASE s = loaded
    <3>1. sfx_buf'[s] = [buf |-> b, len |-> len, loop |-> LoopOf(loaded)] /\ size'[s] = len
      BY <1>6, <2>1 DEF Inv, TypeOK
    <3>. QED
      BY <1>1, <1>2, <1>7, <1>8, <2>1, <3>1 DEF SampleInv
  <2>2. CASE s # loaded
    <3>1. sfx_buf'[s] = sfx_buf[s] /\ size'[s] = size[s] /\ (s \in missing' <=> s \in missing)
      BY <1>5, <1>6, <2>2 DEF Inv, TypeOK
    <3>2. SampleInv(s) /\ s \in Nat
      BY DEF Inv, SamplesInv, Samples
    <3>. QED
      BY <1>1, <1>2, <3>1, <3>2 DEF SampleInv
  <2>. QED
    BY <2>1, <2>2
<1>12. ChannelsInv'
  BY <1>1, <1>3 DEF ChannelsInv, ChannelInv, Playable, Setting
<1>. QED
  BY <1>9, <1>10, <1>11, <1>12 DEF Inv, SamplesInv

\* Steps that change neither samples nor channels.
LEMMA ControlInv ==
  ASSUME Inv, UNCHANGED <<loadVars, wav_channels, lastRead>>, TypeOK', ThreadsInv',
         \A c \in Channels : ~(main.op \in Setting /\ main.c = c),
         \A c \in Channels : ~(main.op \in Setting /\ main.c = c)' \/ main'.op = "pos"
  PROVE  Inv'
<1>1. SamplesInv'
  BY DEF loadVars, Inv, SamplesInv, SampleInv
<1>2. ASSUME NEW c \in Channels PROVE ChannelInv(c)'
  <2>1. Playable(c)
    BY DEF Inv, ChannelsInv, ChannelInv
  <2>2. Playable(c)'
    BY <2>1, PlayableKept DEF loadVars
  <2>. QED
    BY <2>2 DEF ChannelInv, Set, Setting
<1>. QED
  BY <1>1, <1>2 DEF Inv, ChannelsInv

LEMMA CallPlaySFXInv ==
  ASSUME Inv, NEW s \in Samples, NEW c \in Channels, CallPlaySFX(s, c)
  PROVE  Inv'
<1>1. /\ Running /\ main.op = "idle" /\ lock = "none" /\ lock' = "main"
      /\ main' = [op |-> "pos", s |-> s, c |-> c]
      /\ UNCHANGED <<loadVars, bPlayingBuffer, wav_channels, cbVars>>
  BY DEF CallPlaySFX, SDL_LockAudio, Idle
<1>2. s \in Nat /\ frame = 0
  BY <1>1 DEF Samples, Inv, ThreadsInv, TypeOK
<1>3. TypeOK'
  BY <1>1, <1>2 DEF Inv, TypeOK, loadVars, cbVars, Ops, Setting
<1>4. ThreadsInv'
  BY <1>1, <1>2 DEF ThreadsInv, Running, loadVars, cbVars
<1>. QED
  BY <1>1, <1>3, <1>4, ControlInv DEF cbVars, Setting

LEMMA AudioResetInv ==
  ASSUME Inv, Audio_Reset
  PROVE  Inv'
<1>1. /\ Running /\ main.op = "idle" /\ lock = "none" /\ lock' = "main"
      /\ main' = [op |-> "reset", s |-> 0, c |-> 0]
      /\ UNCHANGED <<loadVars, bPlayingBuffer, wav_channels, cbVars>>
  BY DEF Audio_Reset, SDL_LockAudio, Idle
<1>2. 0 \in Channels /\ frame = 0
  BY <1>1, SoundAssumption DEF Channels, Inv, ThreadsInv, TypeOK
<1>3. TypeOK'
  BY <1>1, <1>2 DEF Inv, TypeOK, loadVars, cbVars, Ops, Setting
<1>4. ThreadsInv'
  BY <1>1, <1>2 DEF ThreadsInv, Running, loadVars, cbVars
<1>. QED
  BY <1>1, <1>3, <1>4, ControlInv DEF cbVars, Setting

LEMMA MainUnlocksInv ==
  ASSUME Inv, MainUnlocks
  PROVE  Inv'
<1>1. /\ main.op = "unlock" /\ lock' = "none" /\ main' = [op |-> "idle", s |-> 0, c |-> 0]
      /\ UNCHANGED <<loadVars, bPlayingBuffer, wav_channels, cbVars>>
  BY DEF MainUnlocks, SDL_UnlockAudio, Idle
<1>2. 0 \in Channels /\ frame = 0
  BY <1>1, SoundAssumption DEF Channels, Inv, ThreadsInv, TypeOK
<1>3. TypeOK'
  BY <1>1, <1>2 DEF Inv, TypeOK, loadVars, cbVars, Ops, Setting
<1>4. ThreadsInv'
  BY <1>1, <1>2 DEF Inv, ThreadsInv, Running, loadVars, cbVars
<1>. QED
  BY <1>1, <1>3, <1>4, ControlInv DEF cbVars, Setting

LEMMA CallbackBeginsInv ==
  ASSUME Inv, CallbackBegins
  PROVE  Inv'
<1>1. /\ Running /\ frame = 0 /\ lock = "none" /\ lock' = "audio"
      /\ frame' = Frames /\ chan' = 0
      /\ UNCHANGED <<loadVars, bPlayingBuffer, wav_channels, main, lastRead>>
  BY DEF CallbackBegins, SDL_LockAudio
<1>2. 0 \in Channels /\ Frames \in Nat /\ main.op = "idle"
  BY <1>1, SoundAssumption DEF Channels, Inv, ThreadsInv, TypeOK, Ops
<1>3. TypeOK'
  BY <1>1, <1>2 DEF Inv, TypeOK, loadVars
<1>4. ThreadsInv'
  BY <1>1, <1>2 DEF ThreadsInv, Running, loadVars
<1>. QED
  BY <1>1, <1>2, <1>3, <1>4, ControlInv DEF Setting

LEMMA EnableInv ==
  ASSUME Inv, UNCHANGED <<loadVars, wav_channels, lock, main, cbVars>>
  PROVE  Inv'
<1>1. TypeOK' /\ ThreadsInv'
  BY DEF Inv, TypeOK, ThreadsInv, Running, loadVars, cbVars
<1>2. SamplesInv'
  BY DEF loadVars, Inv, SamplesInv, SampleInv
<1>3. ASSUME NEW c \in Channels PROVE ChannelInv(c)'
  BY DEF loadVars, cbVars, Inv, ChannelsInv, ChannelInv, Playable, Fitting, Set
<1>. QED
  BY <1>1, <1>2, <1>3 DEF Inv, ChannelsInv

\* One field of a channel: what was set before it stays set.
LEMMA SetFieldInv ==
  ASSUME Inv, SetField
  PROVE  Inv'
<1>. DEFINE c == main.c
            snd == sfx_buf[main.s]
            ch == wav_channels[c]
            new == CASE main.op = "pos" -> [ch EXCEPT !.pos = 0]
                     [] main.op = "len" -> [ch EXCEPT !.len = snd.len]
                     [] main.op = "buf" -> [ch EXCEPT !.buf = snd.buf]
                     [] OTHER           -> [ch EXCEPT !.loop = snd.loop]
<1>1. /\ main.op \in Setting
      /\ wav_channels' = [wav_channels EXCEPT ![c] = new]
      /\ lastRead' = [lastRead EXCEPT ![c] = -1]
      /\ main' = [main EXCEPT !.op = AfterField(main.op)]
      /\ UNCHANGED <<loadVars, bPlayingBuffer, lock, frame, chan>>
  BY DEF SetField, Setting
<1>2. /\ c \in Channels /\ main.s \in Samples /\ snd \in Sounds /\ ch \in ChannelStates
      /\ main.op \in Ops
  BY <1>1 DEF Inv, TypeOK
<1>3. new \in ChannelStates
  BY <1>1, <1>2 DEF Setting, Sounds, ChannelStates
<1>4. AfterField(main.op) \in Ops \ {"idle", "pos", "reset"}
  BY <1>1 DEF AfterField, Ops, Setting
<1>5. /\ main'.op = AfterField(main.op) /\ main'.s = main.s /\ main'.c = c
      /\ main' \in [op : Ops, s : Nat, c : Channels]
  BY <1>1, <1>2, <1>4 DEF Inv, TypeOK
<1>6. lock = "main" /\ frame = 0 /\ Running
  BY <1>1 DEF Inv, ThreadsInv, TypeOK, Setting
<1>7. /\ wav_channels'[c] = new /\ lastRead'[c] = -1
      /\ wav_channels' \in [Channels -> ChannelStates] /\ lastRead' \in [Channels -> Int]
      /\ \A d \in Channels \ {c} : wav_channels'[d] = wav_channels[d] /\ lastRead'[d] = lastRead[d]
  BY <1>1, <1>2, <1>3 DEF Inv, TypeOK
<1>8. TypeOK'
  BY <1>1, <1>2, <1>5, <1>7 DEF Inv, TypeOK, loadVars
<1>9. ThreadsInv'
  BY <1>1, <1>6 DEF ThreadsInv, Running, loadVars
<1>10. SamplesInv'
  BY <1>1 DEF loadVars, Inv, SamplesInv, SampleInv
<1>11. /\ Set(c) /\ SampleInv(main.s)
       /\ UNCHANGED <<sfx_buf, size, missing>>
  BY <1>1, <1>2 DEF Inv, ChannelsInv, ChannelInv, SamplesInv, loadVars
<1>12. ChannelInv(c)'
  <2>1. CASE main.op = "pos"
    <3>1. new.pos = 0
      BY <1>2, <2>1 DEF ChannelStates
    <3>2. main'.op = "len"
      BY <1>5, <2>1 DEF AfterField
    <3>. QED
      BY <1>5, <1>7, <3>1, <3>2 DEF ChannelInv, Set, Setting
  <2>2. CASE main.op = "len"
    <3>1. new.pos = ch.pos /\ new.len = snd.len
      BY <1>2, <2>2 DEF ChannelStates
    <3>2. main'.op = "buf"
      BY <1>5, <2>2 DEF AfterField
    <3>. QED
      BY <1>5, <1>7, <1>11, <2>2, <3>1, <3>2 DEF ChannelInv, Set, Setting
  <2>3. CASE main.op = "buf"
    <3>1. new.pos = ch.pos /\ new.len = ch.len /\ new.buf = snd.buf
      BY <1>2, <2>3 DEF ChannelStates
    <3>2. main'.op = "loop"
      BY <1>5, <2>3 DEF AfterField
    <3>. QED
      BY <1>5, <1>7, <1>11, <2>3, <3>1, <3>2 DEF ChannelInv, Set, Setting
  <2>4. CASE main.op = "loop"
    <3>1. new.pos = ch.pos /\ new.len = ch.len /\ new.buf = ch.buf /\ new.loop = snd.loop
      BY <1>2, <2>4 DEF ChannelStates
    <3>2. main'.op = "unlock"
      BY <1>5, <2>4 DEF AfterField
    <3>3. new.pos = 0 /\ new.len = snd.len /\ new.buf = snd.buf
      BY <1>11, <2>4, <3>1 DEF Set
    <3>4. new.buf # NULL => new.buf = main.s
      BY <1>11, <3>3 DEF SampleInv
    <3>5. new.buf # NULL /\ new.buf \notin missing => Fitting(new.len, new.loop, size[new.buf])
      BY <1>11, <3>1, <3>3, <3>4 DEF SampleInv
    <3>. HIDE DEF new
    <3>6. Playable(c)'
      BY <1>5, <1>7, <1>11, <3>3, <3>5 DEF Playable, Fitting
    <3>. QED
      BY <1>5, <3>2, <3>6 DEF ChannelInv, Setting
  <2>. QED
    BY <1>1, <2>1, <2>2, <2>3, <2>4 DEF Setting
<1>13. ASSUME NEW d \in Channels, d # c PROVE ChannelInv(d)'
  <2>1. Playable(d)
    BY <1>13 DEF Inv, ChannelsInv, ChannelInv
  <2>2. Playable(d)'
    BY <1>7, <1>11, <1>13, <2>1 DEF Playable, Fitting
  <2>. QED
    BY <1>5, <1>13, <2>2 DEF ChannelInv
<1>. QED
  BY <1>5, <1>8, <1>9, <1>10, <1>12, <1>13 DEF Inv, ChannelsInv

\* A channel the reset silences plays nothing.
LEMMA SilenceInv ==
  ASSUME Inv, SilenceChannel
  PROVE  Inv'
<1>. DEFINE c == main.c
<1>1. /\ main.op = "reset"
      /\ wav_channels' = [wav_channels EXCEPT ![c].buf = NULL]
      /\ main' = IF c + 1 \in Channels THEN [main EXCEPT !.c = c + 1]
                                       ELSE [main EXCEPT !.op = "unlock"]
      /\ UNCHANGED <<loadVars, bPlayingBuffer, lock, cbVars>>
  BY DEF SilenceChannel
<1>2. c \in Channels /\ lock = "main" /\ frame = 0
  BY <1>1 DEF Inv, TypeOK, ThreadsInv
<1>3. main' \in [op : Ops, s : Nat, c : Channels] /\ main'.op \in {"reset", "unlock"}
  BY <1>1, <1>2 DEF Inv, TypeOK, Ops
<1>4. /\ wav_channels' \in [Channels -> ChannelStates]
      /\ wav_channels'[c].buf = NULL
      /\ \A d \in Channels \ {c} : wav_channels'[d] = wav_channels[d]
  BY <1>1, <1>2 DEF Inv, TypeOK, ChannelStates
<1>5. TypeOK'
  BY <1>1, <1>3, <1>4 DEF Inv, TypeOK, loadVars, cbVars, Setting
<1>6. ThreadsInv'
  BY <1>1, <1>2 DEF Inv, ThreadsInv, Running, loadVars, cbVars
<1>7. SamplesInv'
  BY <1>1 DEF loadVars, Inv, SamplesInv, SampleInv
<1>8. ASSUME NEW d \in Channels PROVE ChannelInv(d)'
  <2>1. Playable(d)
    BY <1>1 DEF Inv, ChannelsInv, ChannelInv, Setting
  <2>2. Playable(d)'
    BY <1>1, <1>4, <2>1 DEF Playable, Fitting, loadVars, cbVars
  <2>. QED
    BY <1>3, <2>2 DEF ChannelInv, Setting
<1>. QED
  BY <1>5, <1>6, <1>7, <1>8 DEF Inv, ChannelsInv

\* What one frame does to a channel that plays.
LEMMA AdvanceKeeps ==
  ASSUME NEW ch \in ChannelStates
  PROVE  /\ Advance(ch) \in ChannelStates
         /\ Advance(ch).len = ch.len /\ Advance(ch).loop = ch.loop
         /\ Advance(ch).buf \in {ch.buf, NULL}
         /\ Advance(ch).buf # NULL =>
              \/ Advance(ch).pos = ch.pos + 2 /\ ch.pos + 2 < ch.len
              \/ Advance(ch).pos = ch.loop /\ ch.loop # -1 /\ ch.pos + 2 >= ch.len
<1>. DEFINE pos == ch.pos + 2
<1>1. ch.pos \in Nat /\ ch.len \in Nat /\ ch.loop \in Nat \cup {-1} /\ pos \in Nat
  BY DEF ChannelStates
<1>2. CASE pos < ch.len
  <2>1. Advance(ch) = [ch EXCEPT !.pos = pos]
    BY <1>2 DEF Advance
  <2>. QED
    BY <1>1, <1>2, <2>1 DEF ChannelStates
<1>3. CASE ~(pos < ch.len) /\ ch.loop # -1
  <2>1. Advance(ch) = [ch EXCEPT !.pos = ch.loop]
    BY <1>3 DEF Advance
  <2>. QED
    BY <1>1, <1>3, <2>1 DEF ChannelStates
<1>4. CASE ~(pos < ch.len) /\ ch.loop = -1
  <2>1. Advance(ch) = [ch EXCEPT !.pos = pos, !.buf = NULL]
    BY <1>4 DEF Advance
  <2>. QED
    BY <1>1, <1>4, <2>1 DEF ChannelStates
<1>. QED
  BY <1>2, <1>3, <1>4

\* One channel of one frame, while the audio thread has the lock.
LEMMA MixChannelInv ==
  ASSUME Inv, MixChannel
  PROVE  Inv'
<1>1. /\ frame > 0 /\ lock = "audio" /\ main.op = "idle" /\ Running
      /\ UNCHANGED <<loadVars, bPlayingBuffer, main>>
      /\ chan \in Channels
  BY DEF MixChannel, Inv, ThreadsInv, TypeOK
<1>2. /\ chan' \in Channels /\ frame' \in Nat /\ lock' \in {"none", "audio"}
      /\ frame' > 0 => lock' = "audio"
  BY <1>1, SoundAssumption DEF MixChannel, SDL_UnlockAudio, Inv, TypeOK, Channels
<1>3. /\ wav_channels' \in [Channels -> ChannelStates]
      /\ lastRead' \in [Channels -> Int]
      /\ \A d \in Channels :
           \/ wav_channels'[d] = wav_channels[d] /\ lastRead'[d] = lastRead[d]
           \/ /\ wav_channels[d].buf # NULL
              /\ wav_channels'[d] = Advance(wav_channels[d])
              /\ lastRead'[d] = wav_channels[d].pos
  <2>1. CASE wav_channels[chan].buf = NULL
    BY <2>1 DEF MixChannel, Inv, TypeOK
  <2>2. CASE wav_channels[chan].buf # NULL
    <3>1. /\ wav_channels' = [wav_channels EXCEPT ![chan] = Advance(wav_channels[chan])]
          /\ lastRead' = [lastRead EXCEPT ![chan] = wav_channels[chan].pos]
      BY <2>2 DEF MixChannel
    <3>2. wav_channels[chan] \in ChannelStates
      BY <1>1 DEF Inv, TypeOK
    <3>3. Advance(wav_channels[chan]) \in ChannelStates /\ wav_channels[chan].pos \in Int
      BY <3>2, AdvanceKeeps DEF ChannelStates
    <3>. QED
      BY <1>1, <2>2, <3>1, <3>3 DEF Inv, TypeOK
  <2>. QED
    BY <2>1, <2>2
<1>4. TypeOK'
  BY <1>1, <1>2, <1>3 DEF Inv, TypeOK, loadVars, Setting
<1>5. ThreadsInv'
  BY <1>1, <1>2 DEF ThreadsInv, Running, loadVars
<1>6. SamplesInv'
  BY <1>1 DEF loadVars, Inv, SamplesInv, SampleInv
<1>7. ASSUME NEW d \in Channels PROVE ChannelInv(d)'
  <2>. DEFINE ch == wav_channels[d]
  <2>1. Playable(d) /\ UNCHANGED <<size, missing>> /\ ch \in ChannelStates
    BY <1>1 DEF Inv, TypeOK, ChannelsInv, ChannelInv, Setting, loadVars
  <2>2. Playable(d)'
    <3>1. CASE wav_channels'[d] = ch /\ lastRead'[d] = lastRead[d]
      BY <2>1, <3>1 DEF Playable, Fitting
    <3>2. CASE ch.buf # NULL /\ wav_channels'[d] = Advance(ch) /\ lastRead'[d] = ch.pos
      <4>. DEFINE new == wav_channels'[d]
      <4>1. /\ new.len = ch.len /\ new.loop = ch.loop /\ new.buf \in {ch.buf, NULL}
            /\ new.buf # NULL =>
                 \/ new.pos = ch.pos + 2 /\ ch.pos + 2 < ch.len
                 \/ new.pos = ch.loop /\ ch.loop # -1 /\ ch.pos + 2 >= ch.len
        BY <2>1, <3>2, AdvanceKeeps
      <4>2. ch.pos \in Nat /\ ch.len \in Nat
        BY <2>1 DEF ChannelStates
      <4>3. ch.buf \notin missing =>
              /\ Fitting(ch.len, ch.loop, size[ch.buf])
              /\ ch.pos % 2 = 0 /\ ch.pos < ch.len
        BY <2>1, <3>2 DEF Playable
      <4>4. new.buf # NULL /\ new.buf \notin missing => new.pos % 2 = 0 /\ new.pos < new.len
        BY <4>1, <4>2, <4>3 DEF Fitting
      <4>5. new.buf # NULL /\ new.buf \notin missing => Fitting(new.len, new.loop, size[new.buf])
        BY <4>1, <4>3
      <4>6. new.buf # NULL =>
              /\ lastRead'[d] # -1
              /\ \/ new.pos = lastRead'[d] + 2
                 \/ new.pos = new.loop /\ lastRead'[d] + 2 >= new.len
        BY <3>2, <4>1, <4>2
      <4>. QED
        BY <2>1, <4>4, <4>5, <4>6 DEF Playable, Fitting
    <3>. QED
      BY <1>3, <1>7, <3>1, <3>2
  <2>. QED
    BY <1>1, <2>2 DEF ChannelInv, Setting
<1>. QED
  BY <1>4, <1>5, <1>6, <1>7 DEF Inv, ChannelsInv

LEMMA NextInv == Inv /\ [Next]_vars => Inv'
<1>. SUFFICES ASSUME Inv, [Next]_vars PROVE Inv'
  OBVIOUS
<1>1. CASE LoadSample
  BY <1>1, LoadSampleInv
<1>2. ASSUME NEW b \in BOOLEAN, Audio_EnableAudio(b) PROVE Inv'
  BY <1>2, EnableInv DEF Audio_EnableAudio
<1>3. ASSUME NEW s \in Samples, NEW c \in Channels, CallPlaySFX(s, c) PROVE Inv'
  BY <1>3, CallPlaySFXInv
<1>4. CASE Audio_Reset
  BY <1>4, AudioResetInv
<1>5. CASE MainThread
  BY <1>5, SetFieldInv, SilenceInv, MainUnlocksInv DEF MainThread
<1>6. CASE AudioThread
  BY <1>6, CallbackBeginsInv, MixChannelInv DEF AudioThread
<1>7. CASE UNCHANGED vars
  BY <1>7, EnableInv DEF vars
<1>. QED
  BY <1>1, <1>2, <1>3, <1>4, <1>5, <1>6, <1>7 DEF Next

\* Inv holds in every state of every behaviour of the two threads.
THEOREM Invariance == Spec => []Inv
<1>. QED
  BY InitInv, NextInv, PTL DEF Spec

\* audio.c:111: every frame the callback reads lies inside its sample, for any
\* samples that could be loaded, any number of channels and any interleaving with
\* the guest's calls and resets.
THEOREM NothingReadBeyond == Spec => []ReadsInside
<1>1. Inv => ReadsInside
  <2>. SUFFICES ASSUME Inv, NEW c \in Channels, Reading(c), wav_channels[c].buf \notin missing
                PROVE  wav_channels[c].pos + 2 <= size[wav_channels[c].buf]
    BY DEF ReadsInside
  <2>1. main.op = "idle"
    BY DEF Inv, ThreadsInv, TypeOK, Reading
  <2>2. Playable(c) /\ wav_channels[c] \in ChannelStates
    BY <2>1 DEF Inv, TypeOK, ChannelsInv, ChannelInv, Setting
  <2>. DEFINE ch == wav_channels[c]
  <2>3. ch.pos \in Nat /\ ch.len \in Nat
    BY <2>2 DEF ChannelStates
  <2>4. /\ ch.len = size[ch.buf] /\ ch.len % 2 = 0
        /\ ch.pos % 2 = 0 /\ ch.pos < ch.len
    BY <2>2 DEF Playable, Fitting, Reading
  <2>. HIDE DEF ch
  <2>. QED
    BY <2>3, <2>4, EvenGap DEF ch
<1>. QED
  BY <1>1, Invariance, PTL

\* audio.c:108-119: a sound is heard from its first frame on, none left out and
\* none twice, and from the start of its loop after the last one.
THEOREM HeardInOrder == Spec => []ReadsInOrder
<1>1. Inv => ReadsInOrder
  <2>. SUFFICES ASSUME Inv, NEW c \in Channels, Reading(c)
                PROVE  LET ch == wav_channels[c]
                       IN IF lastRead[c] = -1 THEN ch.pos = 0
                          ELSE \/ ch.pos = lastRead[c] + 2
                               \/ ch.pos = ch.loop /\ lastRead[c] + 2 >= ch.len
    BY DEF ReadsInOrder
  <2>1. main.op = "idle"
    BY DEF Inv, ThreadsInv, TypeOK, Reading
  <2>2. Playable(c)
    BY <2>1 DEF Inv, ChannelsInv, ChannelInv, Setting
  <2>. QED
    BY <2>2 DEF Playable, Reading
<1>. QED
  BY <1>1, Invariance, PTL
=============================================================================
