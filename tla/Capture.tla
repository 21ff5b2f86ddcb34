------------------------------- MODULE Capture -------------------------------
(***************************************************************************)
(* A recording from the microphone to the PCM file of the gateway: what    *)
(* main.cpp reads from I2S, drops, scales, encodes, buffers and stores,    *)
(* and what ws_server.py decodes.  Sample number i of a behaviour has the  *)
(* value Raw(i); the low 14 bits, which are dropped first, are not kept.   *)
(***************************************************************************)
EXTENDS Integers, FiniteSetsExt, SequencesExt

CONSTANTS
  Bases,       \* bound: the values recordings start from, of 18 bits
  BufferSize,  \* encodedAudioBuffer (1024 in the code)
  ReadSize,    \* rawAudioBuffer (512)
  DropCount,   \* startupSamplesToDrop (4096)
  MaxSamples   \* bound: samples read in a recording

ASSUME CaptureAssumption ==
  /\ {BufferSize, ReadSize} \subseteq Nat \ {0} /\ ReadSize <= BufferSize
  /\ {DropCount, MaxSamples} \subseteq Nat
  /\ Bases \subseteq -131072 .. 131071 - MaxSamples

VARIABLES
  base,      \* the value of the first sample
  phase,     \* "recording", "stopped", or "reply" for the rest of Codecs
  heard,     \* samples read from I2S since the start
  drop,      \* startupSamplesToDrop
  buffer,    \* encodedAudioBuffer up to encodedAudioSamples
  stored,    \* the file
  short,     \* history: a write stored less than it was given
  pending    \* audioUploadState is START

capture == <<base, phase, heard, drop, buffer, stored, short, pending>>

Bit(n, k) == (n \div 2^k) % 2

INT16_MAX == 2^15 - 1
INT16_MIN == -2^15
Int16 == INT16_MIN .. INT16_MAX

\* sample >> 14, saturated to 16 bits.
Saturate(sample) ==
  IF sample > INT16_MAX THEN INT16_MAX
  ELSE IF sample < INT16_MIN THEN INT16_MIN ELSE sample

Clip(sample) == IF sample > 32635 THEN 32635 ELSE sample

\* linearToMuLaw: sign, exponent of the highest bit of the biased sample, the
\* four bits below, all complemented.
LinearToMuLaw(pcm) ==
  LET sign     == IF pcm < 0 THEN 128 ELSE 0
      sample   == Clip(IF pcm < 0 THEN -pcm ELSE pcm) + 132
      exponent == Max({0} \cup {e \in 1 .. 7 : Bit(sample, e + 7) = 1})
      mantissa == (sample \div 2^(exponent + 3)) % 16
  IN  255 - (sign + 16 * exponent + mantissa)

\* _mulaw_to_pcm16 of one byte.
MuLawToPcm16(encoded) ==
  LET value  == 255 - encoded
      sample == ((value % 16) * 8 + 132) * 2^((value \div 16) % 8) - 132
  IN  IF value >= 128 THEN -sample ELSE sample

Raw(i) == base + i - 1

\* flushAudioBuffer of a buffer: SPIFFS takes a prefix of it, and the rest is
\* forgotten.
Flush(full) ==
  \E written \in 0 .. Len(full) :
    /\ stored' = stored \o SubSeq(full, 1, written)
    /\ short' = (short \/ written < Len(full))

\* Mutant: the read in which the transient ends is dropped as a whole.
MutDropped(bytes, left) == IF left > 0 THEN bytes ELSE 0

\* The transient is dropped whatever the sizes of the reads.
Dropped(bytes, left) == Min({bytes, left})

\* One i2s_read in loop(), with the transient of the start dropped and the
\* rest encoded; queueAudioSamples flushes a full buffer, here one at most.
Read(bytes) ==
  /\ phase = "recording" /\ heard + bytes <= MaxSamples
  /\ LET first   == Dropped(bytes, drop)
         codes   == [i \in 1 .. bytes - first |->
                      LinearToMuLaw(Saturate(Raw(heard + first + i)))]
         queued  == buffer \o codes
     IN  /\ heard' = heard + bytes
         /\ drop' = drop - Min({bytes, drop})
         /\ IF Len(queued) < BufferSize
            THEN buffer' = queued /\ UNCHANGED <<stored, short>>
            ELSE /\ Flush(SubSeq(queued, 1, BufferSize))
                 /\ buffer' = SubSeq(queued, BufferSize + 1, Len(queued))
  /\ UNCHANGED <<base, phase, pending>>

\* Release, limit or WiFi loss: flush, close, and upload what was stored.
Stop ==
  /\ phase = "recording" /\ phase' = "stopped"
  /\ IF buffer = <<>> THEN UNCHANGED <<stored, short>> ELSE Flush(buffer)
  /\ buffer' = <<>>
  /\ pending' = (stored' # <<>>)
  /\ UNCHANGED <<base, heard, drop>>
=============================================================================
