---------------------------- MODULE UplinkProofs ----------------------------
(***************************************************************************)
(* TLAPS proofs about Uplink: the gateway submits whole recordings, each   *)
(* of them once, for any number of recordings, frames, connections and     *)
(* faults.                                                                 *)
(***************************************************************************)
EXTENDS Uplink, SequenceTheorems, TLAPS

-----------------------------------------------------------------------------
(* The inductive invariant. *)

\* What makes SubmittedIsWhole and SubmittedOnce inductive.  The frame that may come
\* after frame f on a connection ...
Follows(f, g) ==
  CASE f.type = "identify"  -> g # Identify
    [] f.type = "mic_start" -> \E r \in 1..MaxRecordings : g = Audio(r, 1)
    [] f.type = "audio"     -> g = IF f.chunk < Chunks
                                   THEN Audio(f.recording, f.chunk + 1)
                                   ELSE MicStop(f.recording)
    [] OTHER                -> g = MicStart

\* ... and the frame a handler may be given: identify first, and the frame
\* that continues its file while that is open.
Expects(h, g) ==
  IF ~h.known THEN g = Identify
  ELSE IF h.open THEN Follows(IF h.file = <<>> THEN MicStart ELSE Last(h.file), g)
  ELSE IF h.saved THEN g = MicStart
  ELSE g # Identify

\* What is on the wires continues what the handlers have read ...
Chained(s) == \A i \in 1..(Len(s) - 1) : Follows(s[i], s[i + 1])
WireInv ==
  \A c \in Conns :
    /\ wire[c] # <<>> => Expects(handler[c], wire[c][1])
    /\ Chained(wire[c])
    /\ c > conn => wire[c] = <<>> /\ handler[c] = NoHandler

\* ... and what the device sends next continues that.
Upcoming ==
  CASE upload \in {"IDLE", "START"}    -> MicStart
    [] upload = "DATA" /\ pos < Chunks -> Audio(flash, pos + 1)
    [] OTHER                           -> MicStop(flash)
Continues(c, g) ==
  IF wire[c] = <<>> THEN Expects(handler[c], g) ELSE Follows(Last(wire[c]), g)
DeviceInv ==
  /\ connected => conn # 0
  /\ connected /\ conn \notin cut => Continues(conn, Upcoming)

\* An open file holds the first frames of one recording.
PartOf(file, r) ==
  Len(file) <= Chunks /\ \A i \in 1..Len(file) : file[i] = Audio(r, i)
HandlerOK(h) ==
  /\ ~h.known => ~h.open /\ ~h.saved
  /\ h.open => h.saved /\ \E r \in 1..MaxRecordings : PartOf(h.file, r)
HandlerInv == \A c \in Conns : HandlerOK(handler[c])

\* One mic_stop at most is sent for a recording, and it is read when the
\* recording is submitted.
IsSubmitted(r) == \E k \in 1..Len(submitted) : submitted[k].file = Chunk(r)
Pending(r) == upload # "IDLE" /\ flash = r
StopInv ==
  \A r \in 1..MaxRecordings :
    /\ \A c \in Conns : \A i \in 1..Len(wire[c]) :
         wire[c][i] = MicStop(r) =>
           /\ r <= recorded /\ ~Pending(r) /\ ~IsSubmitted(r)
           /\ \A d \in Conns : \A j \in 1..Len(wire[d]) :
                wire[d][j] = MicStop(r) => c = d /\ i = j
    /\ IsSubmitted(r) => r <= recorded /\ ~Pending(r)

UInv ==
  /\ TypeOK /\ PendingIsOnFlash /\ SubmittedIsWhole /\ SubmittedOnce
  /\ WireInv /\ DeviceInv /\ HandlerInv /\ StopInv

-----------------------------------------------------------------------------
(* Frames and what may follow them.                                         *)

\* A frame is one of four kinds.
LEMMA FrameKinds ==
  ASSUME NEW f \in Frames
  PROVE  \/ f = Identify
         \/ f = MicStart
         \/ \E r \in 1..MaxRecordings : f = MicStop(r)
         \/ \E r \in 1..MaxRecordings, k \in 1..Chunks : f = Audio(r, k)
BY DEF Frames

\* The frames are told apart by their type and their tags.
LEMMA FramesDiffer ==
  ASSUME NEW r, NEW s, NEW k, NEW l
  PROVE  /\ Identify # MicStart /\ Identify # MicStop(r) /\ Identify # Audio(r, k)
         /\ MicStart # MicStop(r) /\ MicStart # Audio(r, k)
         /\ MicStop(r) # Audio(s, k)
         /\ MicStop(r) = MicStop(s) => r = s
         /\ Audio(r, k) = Audio(s, l) => r = s /\ k = l
<1>1. /\ Identify.type = "identify" /\ MicStart.type = "mic_start"
      /\ MicStop(r).type = "mic_stop" /\ Audio(r, k).type = "audio"
      /\ Audio(s, k).type = "audio"
  BY DEF Identify, MicStart, MicStop, Audio
<1>2. /\ MicStop(r).recording = r /\ MicStop(s).recording = s
      /\ Audio(r, k).recording = r /\ Audio(s, l).recording = s
      /\ Audio(r, k).chunk = k /\ Audio(s, l).chunk = l
  BY DEF MicStop, Audio
<1> QED
  BY <1>1, <1>2

\* Follows for each kind of frame.
LEMMA FollowsKinds ==
  ASSUME NEW g, NEW r, NEW k
  PROVE  /\ Follows(Identify, g) <=> g # Identify
         /\ Follows(MicStart, g) <=> \E x \in 1..MaxRecordings : g = Audio(x, 1)
         /\ Follows(Audio(r, k), g) <=>
              g = IF k < Chunks THEN Audio(r, k + 1) ELSE MicStop(r)
         /\ Follows(MicStop(r), g) <=> g = MicStart
<1>1. /\ Identify.type = "identify" /\ MicStart.type = "mic_start"
      /\ MicStop(r).type = "mic_stop" /\ Audio(r, k).type = "audio"
      /\ Audio(r, k).recording = r /\ Audio(r, k).chunk = k
  BY DEF Identify, MicStart, MicStop, Audio
<1>2. Follows(Identify, g) <=> g # Identify
  BY <1>1 DEF Follows
<1>3. Follows(MicStart, g) <=> \E x \in 1..MaxRecordings : g = Audio(x, 1)
  BY <1>1 DEF Follows
<1>4. Follows(Audio(r, k), g) <=>
        g = IF k < Chunks THEN Audio(r, k + 1) ELSE MicStop(r)
  BY <1>1 DEF Follows
<1>5. Follows(MicStop(r), g) <=> g = MicStart
  BY <1>1 DEF Follows
<1> QED
  BY <1>2, <1>3, <1>4, <1>5

\* Only the first frame of a connection is identify.
LEMMA NothingThenIdentify ==
  ASSUME NEW f \in Frames, NEW g, Follows(f, g)
  PROVE  g # Identify
<1>1. CASE f = Identify
  BY <1>1, FollowsKinds
<1>2. CASE f = MicStart
  <2>1. PICK x \in 1..MaxRecordings : g = Audio(x, 1)
    BY <1>2, FollowsKinds
  <2> QED
    BY <2>1, FramesDiffer
<1>3. ASSUME NEW r \in 1..MaxRecordings, f = MicStop(r) PROVE g # Identify
  BY <1>3, FollowsKinds, FramesDiffer
<1>4. ASSUME NEW r \in 1..MaxRecordings, NEW k \in 1..Chunks, f = Audio(r, k)
      PROVE  g # Identify
  <2>1. g = Audio(r, k + 1) \/ g = MicStop(r)
    BY <1>4, FollowsKinds
  <2> QED
    BY <2>1, FramesDiffer
<1> QED
  BY <1>1, <1>2, <1>3, <1>4, FrameKinds

\* What the handler does with each kind of frame.
LEMMA AfterKinds ==
  ASSUME NEW h, NEW r
  PROVE  /\ AfterFrame(h, Identify) = [h EXCEPT !.known = TRUE]
         /\ AfterFrame(h, MicStart) = [h EXCEPT !.open = TRUE, !.saved = TRUE,
                                                !.file = <<>>]
         /\ AfterFrame(h, MicStop(r)) = [h EXCEPT !.open = FALSE]
<1>1. /\ Identify.type = "identify" /\ MicStart.type = "mic_start"
      /\ MicStop(r).type = "mic_stop"
  BY DEF Identify, MicStart, MicStop
<1> QED
  BY <1>1 DEF AfterFrame

\* A file that is open takes the frame in; otherwise it is dropped.
LEMMA AfterAudio ==
  ASSUME NEW h, NEW f \in Frames, f.type = "audio"
  PROVE  /\ h.open => AfterFrame(h, f) = [h EXCEPT !.file = Append(@, f)]
         /\ ~h.open => AfterFrame(h, f) = h
<1>1. /\ f.type # "identify" /\ f.type # "mic_start"
  OBVIOUS
<1> QED
  BY <1>1 DEF AfterFrame

\* A piece of a chained wire is chained.
LEMMA ChainedPiece ==
  ASSUME NEW s \in Seq(Frames), NEW t \in Seq(Frames), NEW k \in Nat,
         Len(t) + k <= Len(s), \A i \in 1..Len(t) : t[i] = s[i + k],
         Chained(s)
  PROVE  Chained(t)
<1> SUFFICES ASSUME NEW i \in 1..(Len(t) - 1)
             PROVE  Follows(t[i], t[i + 1])
  BY DEF Chained
<1>1. Len(t) \in Nat /\ Len(s) \in Nat
  BY LenProperties
<1>2. /\ i \in 1..Len(t) /\ i + 1 \in 1..Len(t)
      /\ i + k \in 1..(Len(s) - 1) /\ (i + 1) + k = (i + k) + 1
  BY <1>1
<1> QED
  BY <1>2 DEF Chained

\* A frame that follows the last one may be appended.
LEMMA ChainedAppend ==
  ASSUME NEW s \in Seq(Frames), NEW f \in Frames, Chained(s),
         s # <<>> => Follows(Last(s), f)
  PROVE  Chained(Append(s, f))
<1>1. /\ Len(s) \in Nat /\ Len(Append(s, f)) = Len(s) + 1
      /\ \A i \in 1..Len(s) : Append(s, f)[i] = s[i]
      /\ Append(s, f)[Len(s) + 1] = f
  BY AppendProperties, LenProperties
<1> SUFFICES ASSUME NEW i \in 1..Len(s)
             PROVE  Follows(Append(s, f)[i], Append(s, f)[i + 1])
  BY <1>1 DEF Chained
<1>2. CASE i = Len(s)
  <2>1. s # <<>> /\ Append(s, f)[i] = s[Len(s)] /\ Append(s, f)[i + 1] = f
    BY <1>1, <1>2
  <2> QED
    BY <2>1 DEF Last
<1>3. CASE i # Len(s)
  <2>1. i \in 1..(Len(s) - 1) /\ i + 1 \in 1..Len(s)
    BY <1>1, <1>3
  <2> QED
    BY <1>1, <2>1 DEF Chained
<1> QED
  BY <1>2, <1>3

-----------------------------------------------------------------------------
(* One handler reading one frame.                                           *)

\* A file that is open grows by the frame that comes next.
LEMMA ReadAudio ==
  ASSUME NEW h \in Handlers, NEW r \in 1..MaxRecordings, NEW k \in 1..Chunks,
         HandlerOK(h), h.open, Expects(h, Audio(r, k))
  PROVE  PartOf(Append(h.file, Audio(r, k)), r)
<1>1. /\ h.file \in Seq(Frames) /\ h.known /\ Audio(r, k) \in Frames
  BY DEF Handlers, HandlerOK, Frames
<1>2. PICK x \in 1..MaxRecordings : PartOf(h.file, x)
  BY DEF HandlerOK
<1>3. Len(h.file) \in Nat /\ (h.file = <<>> <=> Len(h.file) = 0)
  BY <1>1, EmptySeq, LenProperties
<1>4. Follows(IF h.file = <<>> THEN MicStart ELSE Last(h.file), Audio(r, k))
  BY <1>1 DEF Expects
<1>5. /\ k = Len(h.file) + 1
      /\ h.file # <<>> => x = r
  <2>1. CASE h.file = <<>>
    <3>1. \E y \in 1..MaxRecordings : Audio(r, k) = Audio(y, 1)
      BY <1>4, <2>1, FollowsKinds
    <3> QED
      BY <1>3, <2>1, <3>1, FramesDiffer
  <2>2. CASE h.file # <<>>
    <3>1. Len(h.file) \in 1..Chunks
      BY <1>2, <1>3, <2>2 DEF PartOf
    <3>2. Last(h.file) = Audio(x, Len(h.file))
      BY <1>2, <1>3, <3>1 DEF PartOf, Last
    <3>3. Audio(r, k) = IF Len(h.file) < Chunks THEN Audio(x, Len(h.file) + 1)
                        ELSE MicStop(x)
      BY <1>4, <2>2, <3>2, FollowsKinds
    <3>4. Audio(r, k) = Audio(x, Len(h.file) + 1)
      BY <3>3, FramesDiffer
    <3> QED
      BY <3>4, FramesDiffer
  <2> QED
    BY <2>1, <2>2
<1>6. /\ Len(Append(h.file, Audio(r, k))) = Len(h.file) + 1
      /\ \A i \in 1..Len(h.file) : Append(h.file, Audio(r, k))[i] = h.file[i]
      /\ Append(h.file, Audio(r, k))[Len(h.file) + 1] = Audio(r, k)
  BY <1>1, AppendProperties
<1>7. \A i \in 1..Len(h.file) : h.file[i] = Audio(r, i)
  BY <1>2, <1>3, <1>5 DEF PartOf
<1>8. \A i \in 1..(Len(h.file) + 1) :
        Append(h.file, Audio(r, k))[i] = Audio(r, i)
  <2> SUFFICES ASSUME NEW i \in 1..(Len(h.file) + 1)
               PROVE  Append(h.file, Audio(r, k))[i] = Audio(r, i)
    OBVIOUS
  <2>1. CASE i = Len(h.file) + 1
    BY <1>5, <1>6, <2>1
  <2>2. CASE i # Len(h.file) + 1
    <3>1. i \in 1..Len(h.file)
      BY <1>3, <2>2
    <3> QED
      BY <3>1, <1>6, <1>7
  <2> QED
    BY <2>1, <2>2
<1> QED
  BY <1>3, <1>5, <1>6, <1>8 DEF PartOf

\* Whatever it expects, a handler stays one whose file is part of a recording.
LEMMA ReadKeepsHandler ==
  ASSUME NEW h \in Handlers, NEW f \in Frames, HandlerOK(h), Expects(h, f)
  PROVE  AfterFrame(h, f) \in Handlers /\ HandlerOK(AfterFrame(h, f))
<1> DEFINE H == AfterFrame(h, f)
<1>0. h.file \in Seq(Frames)
  BY DEF Handlers
<1>1. CASE f = Identify
  <2>1. H = [h EXCEPT !.known = TRUE]
    BY <1>1, AfterKinds
  <2> QED
    BY <2>1 DEF Handlers, HandlerOK
<1>2. CASE f = MicStart
  <2>1. H = [h EXCEPT !.open = TRUE, !.saved = TRUE, !.file = <<>>]
    BY <1>2, AfterKinds
  <2>2. h.known
    BY <1>2, FramesDiffer DEF Expects
  <2>3. 1 \in 1..MaxRecordings
    BY BoundsAssumption
  <2>4. /\ <<>> \in Seq(Frames)
        /\ H.known = h.known /\ H.open = TRUE /\ H.saved = TRUE /\ H.file = <<>>
    BY <2>1, EmptySeq DEF Handlers
  <2>5. H \in Handlers
    BY <2>1, <2>4 DEF Handlers
  <2>6. PartOf(<<>>, 1)
    BY EmptySeq, ChunksAssumption DEF PartOf
  <2> HIDE DEF H
  <2>7. HandlerOK(H)
    BY <2>2, <2>3, <2>4, <2>6 DEF HandlerOK
  <2> QED
    BY <2>5, <2>7 DEF H
<1>3. ASSUME NEW r \in 1..MaxRecordings, f = MicStop(r)
      PROVE  H \in Handlers /\ HandlerOK(H)
  <2>1. H = [h EXCEPT !.open = FALSE]
    BY <1>3, AfterKinds
  <2>2. h.known
    BY <1>3, FramesDiffer DEF Expects
  <2> QED
    BY <2>1, <2>2 DEF Handlers, HandlerOK
<1>4. ASSUME NEW r \in 1..MaxRecordings, NEW k \in 1..Chunks, f = Audio(r, k)
      PROVE  H \in Handlers /\ HandlerOK(H)
  <2>0. f.type = "audio"
    BY <1>4 DEF Audio
  <2>1. CASE h.open
    <3>1. H = [h EXCEPT !.file = Append(@, f)]
      BY <2>0, <2>1, AfterAudio
    <3>2. PartOf(Append(h.file, f), r)
      BY <1>4, <2>1, ReadAudio
    <3>3. Append(h.file, f) \in Seq(Frames)
      BY <1>0, AppendProperties
    <3>4. H.file = Append(h.file, f) /\ H.open = h.open /\ H.saved = h.saved
          /\ H.known = h.known
      BY <3>1 DEF Handlers
    <3>5. H \in Handlers
      BY <3>1, <3>3 DEF Handlers
    <3>6. PartOf(H.file, r)
      BY <3>2, <3>4
    <3> HIDE DEF H
    <3> QED
      BY <2>1, <3>4, <3>5, <3>6 DEF HandlerOK
  <2>2. CASE ~h.open
    BY <2>0, <2>2, AfterAudio
  <2> QED
    BY <2>1, <2>2
<1> QED
  BY <1>1, <1>2, <1>3, <1>4, FrameKinds

\* What may follow the frame on the wire, the handler expects after it.
LEMMA ReadThenExpects ==
  ASSUME NEW h \in Handlers, NEW f \in Frames, NEW g, HandlerOK(h),
         Expects(h, f), Follows(f, g)
  PROVE  Expects(AfterFrame(h, f), g)
<1> DEFINE H == AfterFrame(h, f)
<1>0. h.file \in Seq(Frames) /\ g # Identify
  BY NothingThenIdentify DEF Handlers
<1>1. CASE f = Identify
  <2>1. H = [h EXCEPT !.known = TRUE]
    BY <1>1, AfterKinds
  <2>2. H.known /\ H.open = h.open /\ H.saved = h.saved /\ H.file = h.file
    BY <2>1 DEF Handlers
  <2>3. ~h.known
    <3>1. SUFFICES ASSUME h.known PROVE FALSE
      OBVIOUS
    <3>2. CASE h.open
      <4>1. h.file # <<>> => Last(h.file) \in Frames
        BY <1>0, LenProperties, EmptySeq, ElementOfSeq DEF Last
      <4>2. Follows(IF h.file = <<>> THEN MicStart ELSE Last(h.file), Identify)
        BY <3>1, <3>2, <1>1 DEF Expects
      <4>3. MicStart \in Frames
        BY DEF Frames
      <4> QED
        BY <4>1, <4>2, <4>3, NothingThenIdentify
    <3>3. CASE ~h.open
      BY <3>1, <3>3, <1>1, FramesDiffer DEF Expects
    <3> QED
      BY <3>2, <3>3
  <2>4. ~H.open /\ ~H.saved
    BY <2>2, <2>3 DEF HandlerOK
  <2> HIDE DEF H
  <2>5. Expects(H, g)
    BY <1>0, <2>2, <2>4 DEF Expects
  <2> QED
    BY <2>5 DEF H
<1>2. CASE f = MicStart
  <2>1. H = [h EXCEPT !.open = TRUE, !.saved = TRUE, !.file = <<>>]
    BY <1>2, AfterKinds
  <2>2. h.known
    BY <1>2, FramesDiffer DEF Expects
  <2>3. H.known /\ H.open /\ H.file = <<>>
    BY <2>1, <2>2 DEF Handlers
  <2> HIDE DEF H
  <2>4. Expects(H, g)
    BY <1>2, <2>3 DEF Expects
  <2> QED
    BY <2>4 DEF H
<1>3. ASSUME NEW r \in 1..MaxRecordings, f = MicStop(r)
      PROVE  Expects(H, g)
  <2>1. H = [h EXCEPT !.open = FALSE]
    BY <1>3, AfterKinds
  <2>2. h.known
    BY <1>3, FramesDiffer DEF Expects
  <2>3. H.known /\ ~H.open
    BY <2>1, <2>2 DEF Handlers
  <2>4. g = MicStart
    BY <1>3, FollowsKinds
  <2> HIDE DEF H
  <2> QED
    BY <1>0, <2>3, <2>4 DEF Expects
<1>4. ASSUME NEW r \in 1..MaxRecordings, NEW k \in 1..Chunks, f = Audio(r, k)
      PROVE  Expects(H, g)
  <2>0. f.type = "audio"
    BY <1>4 DEF Audio
  <2>1. h.known
    BY <1>4, FramesDiffer DEF Expects
  <2>2. CASE h.open
    <3>1. H = [h EXCEPT !.file = Append(@, f)]
      BY <2>0, <2>2, AfterAudio
    <3>2. H.known /\ H.open /\ H.file = Append(h.file, f)
      BY <3>1, <2>1, <2>2 DEF Handlers
    <3>3. /\ Append(h.file, f) \in Seq(Frames)
          /\ Len(Append(h.file, f)) = Len(h.file) + 1 /\ Len(h.file) \in Nat
          /\ Append(h.file, f)[Len(h.file) + 1] = f
      BY <1>0, AppendProperties, LenProperties
    <3>4. Last(H.file) = f /\ H.file # <<>>
      BY <3>2, <3>3, EmptySeq DEF Last
    <3> HIDE DEF H
    <3> QED
      BY <3>2, <3>4 DEF Expects
  <2>3. CASE ~h.open
    <3>1. H = h
      BY <2>0, <2>3, AfterAudio
    <3>2. ~h.saved
      BY <1>4, <2>1, <2>3, FramesDiffer DEF Expects
    <3> HIDE DEF H
    <3> QED
      BY <1>0, <2>1, <2>3, <3>1, <3>2 DEF Expects
  <2> QED
    BY <2>2, <2>3
<1> QED
  BY <1>1, <1>2, <1>3, <1>4, FrameKinds

\* What a mic_stop submits is the whole recording it belongs to.
LEMMA SubmitsTheWhole ==
  ASSUME NEW h \in Handlers, NEW f \in Frames, HandlerOK(h), Expects(h, f),
         Submits(h, f)
  PROVE  \E r \in 1..MaxRecordings : f = MicStop(r) /\ h.file = Chunk(r)
<1>1. PICK r \in 1..MaxRecordings : f = MicStop(r)
  <2>1. Identify.type # "mic_stop" /\ MicStart.type # "mic_stop"
    BY DEF Identify, MicStart
  <2>2. \A x, k : Audio(x, k).type # "mic_stop"
    BY DEF Audio
  <2> QED
    BY <2>1, <2>2, FrameKinds DEF Submits
<1>2. h.known /\ h.saved /\ h.file # <<>> /\ h.file \in Seq(Frames)
  BY DEF Submits, Handlers
<1>3. h.open
  BY <1>1, <1>2, FramesDiffer DEF Expects
<1>4. PICK x \in 1..MaxRecordings : PartOf(h.file, x)
  BY <1>3 DEF HandlerOK
<1>5. Len(h.file) \in 1..Chunks /\ Len(h.file) \in Nat
  BY <1>2, <1>4, EmptySeq, LenProperties DEF PartOf
<1>6. Last(h.file) = Audio(x, Len(h.file))
  BY <1>4, <1>5 DEF PartOf, Last
<1>7. MicStop(r) = IF Len(h.file) < Chunks THEN Audio(x, Len(h.file) + 1)
                   ELSE MicStop(x)
  <2>1. Follows(Last(h.file), MicStop(r))
    BY <1>1, <1>2, <1>3 DEF Expects
  <2> QED
    BY <2>1, <1>6, FollowsKinds
<1>8. x = r /\ Len(h.file) = Chunks
  <2>1. MicStop(r) # Audio(x, Len(h.file) + 1)
    BY FramesDiffer
  <2>2. ~(Len(h.file) < Chunks)
    BY <1>7, <2>1
  <2> QED
    BY <1>5, <1>7, <2>2, FramesDiffer, ChunksAssumption
<1>9. h.file = Chunk(r)
  <2>1. h.file = [i \in 1..Len(h.file) |-> h.file[i]]
    BY <1>2, LenProperties
  <2>2. \A i \in 1..Chunks : h.file[i] = Audio(r, i)
    BY <1>4, <1>8 DEF PartOf
  <2> QED
    BY <2>1, <2>2, <1>8 DEF Chunk
<1> QED
  BY <1>1, <1>9

-----------------------------------------------------------------------------
(* Wires.                                                                   *)

\* A frame taken from a wire.
LEMMA TakeFrame ==
  ASSUME NEW w \in Seq(Frames), w # <<>>
  PROVE  /\ Head(w) = w[1] /\ Head(w) \in Frames
         /\ Tail(w) \in Seq(Frames) /\ Len(w) \in Nat /\ Len(w) = Len(Tail(w)) + 1
         /\ \A i \in 1..Len(Tail(w)) : Tail(w)[i] = w[i + 1]
         /\ Tail(w) = <<>> => Last(w) = w[1]
         /\ Tail(w) # <<>> => /\ Tail(w)[1] = w[2] /\ Len(w) >= 2
                              /\ Last(Tail(w)) = Last(w)
<1>1. /\ Head(w) = w[1] /\ Head(w) \in Frames /\ Tail(w) \in Seq(Frames)
      /\ Len(Tail(w)) = Len(w) - 1 /\ Len(w) \in Nat
      /\ \A i \in 1..Len(Tail(w)) : Tail(w)[i] = w[i + 1]
  BY HeadTailProperties, LenProperties
<1>2. ASSUME Tail(w) = <<>> PROVE Last(w) = w[1]
  <2>1. Len(Tail(w)) = 0 /\ Len(Tail(w)) = Len(w) - 1 /\ Len(w) \in Nat
    BY <1>1, <1>2, EmptySeq
  <2> DEFINE m == Len(w)
             t == Len(Tail(w))
  <2>2. t = 0 /\ t = m - 1 /\ m \in Nat
    BY <2>1
  <2> HIDE DEF m, t
  <2>3. m = 1
    BY <2>2
  <2>4. Len(w) = 1
    BY <2>3 DEF m
  <2> QED
    BY <2>4 DEF Last
<1>3. ASSUME Tail(w) # <<>>
      PROVE  Tail(w)[1] = w[2] /\ Len(w) >= 2 /\ Last(Tail(w)) = Last(w)
  <2>1. Len(Tail(w)) \in Nat \ {0}
    BY <1>1, <1>3, EmptySeq
  <2>2. /\ 1 \in 1..Len(Tail(w)) /\ Len(Tail(w)) \in 1..Len(Tail(w))
        /\ Len(Tail(w)) + 1 = Len(w) /\ Len(w) >= 2
    BY <1>1, <2>1
  <2>3. Tail(w)[1] = w[1 + 1] /\ Tail(w)[Len(Tail(w))] = w[Len(w)]
    BY <1>1, <2>2
  <2> QED
    BY <2>2, <2>3 DEF Last
<1> QED
  BY <1>1, <1>2, <1>3

\* A frame put on a wire.
LEMMA PutFrame ==
  ASSUME NEW w \in Seq(Frames), NEW f \in Frames
  PROVE  /\ Append(w, f) \in Seq(Frames) /\ Append(w, f) # <<>>
         /\ Last(Append(w, f)) = f
         /\ Append(w, f)[1] = IF w = <<>> THEN f ELSE w[1]
         /\ Len(w) \in Nat /\ Len(Append(w, f)) = Len(w) + 1
         /\ \A i \in 1..Len(w) : Append(w, f)[i] = w[i]
         /\ Append(w, f)[Len(w) + 1] = f
<1>1. /\ Append(w, f) \in Seq(Frames) /\ Len(w) \in Nat
      /\ Len(Append(w, f)) = Len(w) + 1
      /\ \A i \in 1..Len(w) : Append(w, f)[i] = w[i]
      /\ Append(w, f)[Len(w) + 1] = f
  BY AppendProperties, LenProperties
<1>2. Append(w, f) # <<>> /\ Last(Append(w, f)) = f
  BY <1>1, EmptySeq DEF Last
<1>3. CASE w = <<>>
  BY <1>1, <1>2, <1>3, EmptySeq
<1>4. CASE w # <<>>
  <2>1. 1 \in 1..Len(w)
    BY <1>1, <1>4, EmptySeq
  <2> QED
    BY <1>1, <1>2, <1>4, <2>1
<1> QED
  BY <1>3, <1>4

\* The first frames of a wire.
LEMMA CutWire ==
  ASSUME NEW w \in Seq(Frames), NEW n \in 0..Len(w)
  PROVE  /\ SubSeq(w, 1, n) \in Seq(Frames) /\ Len(SubSeq(w, 1, n)) = n
         /\ Len(w) \in Nat
         /\ \A i \in 1..n : SubSeq(w, 1, n)[i] = w[i]
         /\ SubSeq(w, 1, n) # <<>> => w # <<>> /\ SubSeq(w, 1, n)[1] = w[1]
<1>1. Len(w) \in Nat /\ \A i \in 1..n : w[i] \in Frames
  BY LenProperties, ElementOfSeq
<1>2. /\ SubSeq(w, 1, n) \in Seq(Frames)
      /\ Len(SubSeq(w, 1, n)) = IF 1 <= n THEN n - 1 + 1 ELSE 0
      /\ \A i \in 1..(n - 1 + 1) : SubSeq(w, 1, n)[i] = w[1 + i - 1]
  BY <1>1, SubSeqProperties
<1>3. Len(SubSeq(w, 1, n)) = n /\ \A i \in 1..n : SubSeq(w, 1, n)[i] = w[i]
  BY <1>1, <1>2
<1>4. ASSUME SubSeq(w, 1, n) # <<>> PROVE w # <<>> /\ 1 \in 1..n
  <2>1. n # 0
    BY <1>2, <1>3, <1>4, EmptySeq
  <2> QED
    BY <1>1, <2>1, EmptySeq
<1> QED
  BY <1>1, <1>2, <1>3, <1>4

\* A step that sends no mic_stop, and submits a recording only with the one
\* it has read, keeps them unique.
LEMMA StopsKept ==
  ASSUME TypeOK, TypeOK', StopInv, recorded <= recorded',
         \A r \in 1..recorded : Pending(r)' => Pending(r),
         \A c \in Conns : \E k \in Nat :
           \A r \in 1..MaxRecordings : \A i \in 1..Len(wire'[c]) :
             wire'[c][i] = MicStop(r) =>
               i + k \in 1..Len(wire[c]) /\ wire[c][i + k] = MicStop(r),
         \A r \in 1..MaxRecordings : IsSubmitted(r)' =>
           \/ IsSubmitted(r)
           \/ /\ r <= recorded /\ ~Pending(r)
              /\ \A c \in Conns : \A i \in 1..Len(wire'[c]) :
                   wire'[c][i] # MicStop(r)
  PROVE  StopInv'
<1> SUFFICES ASSUME NEW r \in 1..MaxRecordings
             PROVE  /\ \A c \in Conns : \A i \in 1..Len(wire'[c]) :
                         wire'[c][i] = MicStop(r) =>
                           /\ r <= recorded' /\ ~Pending(r)' /\ ~IsSubmitted(r)'
                           /\ \A d \in Conns : \A j \in 1..Len(wire'[d]) :
                                wire'[d][j] = MicStop(r) => c = d /\ i = j
                    /\ IsSubmitted(r)' => r <= recorded' /\ ~Pending(r)'
  BY DEF StopInv
<1>0. recorded \in Nat /\ recorded' \in Nat
  BY BoundsAssumption DEF TypeOK
<1>1. ASSUME NEW c \in Conns, NEW i \in 1..Len(wire'[c]), wire'[c][i] = MicStop(r)
      PROVE  /\ r <= recorded' /\ ~Pending(r)' /\ ~IsSubmitted(r)'
             /\ \A d \in Conns : \A j \in 1..Len(wire'[d]) :
                  wire'[d][j] = MicStop(r) => c = d /\ i = j
  <2>1. PICK k \in Nat : \A x \in 1..Len(wire'[c]) : wire'[c][x] = MicStop(r) =>
          x + k \in 1..Len(wire[c]) /\ wire[c][x + k] = MicStop(r)
    OBVIOUS
  <2>2. i + k \in 1..Len(wire[c]) /\ wire[c][i + k] = MicStop(r)
    BY <1>1, <2>1
  <2>3. /\ r <= recorded /\ ~Pending(r) /\ ~IsSubmitted(r)
        /\ \A d \in Conns : \A j \in 1..Len(wire[d]) :
             wire[d][j] = MicStop(r) => c = d /\ i + k = j
    BY <2>2 DEF StopInv
  <2>4. r <= recorded' /\ ~Pending(r)'
    BY <1>0, <2>3
  <2>5. ~IsSubmitted(r)'
    BY <1>1, <2>3
  <2>6. ASSUME NEW d \in Conns, NEW j \in 1..Len(wire'[d]), wire'[d][j] = MicStop(r)
        PROVE  c = d /\ i = j
    <3>1. PICK l \in Nat :
            j + l \in 1..Len(wire[d]) /\ wire[d][j + l] = MicStop(r)
      BY <2>6
    <3>2. c = d /\ i + k = j + l
      BY <2>3, <3>1
    <3>3. j + k \in 1..Len(wire[c]) /\ wire[c][j + k] = MicStop(r)
      BY <2>1, <2>6, <3>2
    <3>4. i + k = j + k
      BY <2>3, <3>3
    <3>5. Len(wire'[c]) \in Nat
      BY LenProperties DEF TypeOK
    <3>6. i \in Nat /\ j \in Nat
      BY <3>2, <3>5
    <3> QED
      BY <3>2, <3>4, <3>6
  <2> QED
    BY <2>4, <2>5, <2>6
<1>2. ASSUME IsSubmitted(r)' PROVE r <= recorded' /\ ~Pending(r)'
  <2>1. r <= recorded /\ ~Pending(r)
    BY <1>2 DEF StopInv
  <2> QED
    BY <1>0, <2>1
<1> QED
  BY <1>1, <1>2

-----------------------------------------------------------------------------
(* The device's steps.                                                      *)

\* A step that leaves the wires and the handlers as they are.
LEMMA WiresUntouched ==
  ASSUME TypeOK', UInv, UNCHANGED <<conn, wire, handler, submitted>>,
         recorded <= recorded', \A r \in 1..recorded : Pending(r)' => Pending(r)
  PROVE  WireInv' /\ HandlerInv' /\ StopInv' /\ SubmittedIsWhole' /\ SubmittedOnce'
<1>1. WireInv' /\ HandlerInv'
  BY DEF UInv, WireInv, HandlerInv
<1>2. SubmittedOnce'
  BY DEF UInv, SubmittedOnce
<1>3. SubmittedIsWhole'
  <2>1. recorded \in Nat /\ recorded' \in Nat
    BY BoundsAssumption DEF UInv, TypeOK
  <2> QED
    BY <2>1 DEF UInv, SubmittedIsWhole
<1>4. StopInv'
  <2>1. \A c \in Conns : \E k \in Nat :
          \A r \in 1..MaxRecordings : \A i \in 1..Len(wire'[c]) :
            wire'[c][i] = MicStop(r) =>
              i + k \in 1..Len(wire[c]) /\ wire[c][i + k] = MicStop(r)
    <3> SUFFICES ASSUME NEW c \in Conns
                 PROVE  \E k \in Nat :
          \A r \in 1..MaxRecordings : \A i \in 1..Len(wire[c]) :
            wire[c][i] = MicStop(r) =>
              i + k \in 1..Len(wire[c]) /\ wire[c][i + k] = MicStop(r)
      OBVIOUS
    <3>1. Len(wire[c]) \in Nat
      BY LenProperties DEF UInv, TypeOK
    <3>2. \A i \in 1..Len(wire[c]) : i + 0 = i
      BY <3>1
    <3> QED
      BY <3>2
  <2>2. \A r \in 1..MaxRecordings : IsSubmitted(r)' => IsSubmitted(r)
    BY DEF IsSubmitted
  <2> QED
    BY <2>1, <2>2, StopsKept DEF UInv
<1> QED
  BY <1>1, <1>2, <1>3, <1>4

\* A connection that is up continues as before if the device is to send the
\* same frame as before.
LEMMA DeviceUntouched ==
  ASSUME UInv, UNCHANGED <<conn, wire, handler>>, cut \subseteq cut',
         connected' => connected, connected' /\ conn \notin cut' => Upcoming' = Upcoming
  PROVE  DeviceInv'
BY DEF UInv, DeviceInv, Continues

\* A button recording replaces the file of an idle upload.
LEMMA StepRecord ==
  ASSUME UInv, Record
  PROVE  UInv'
<1>1. /\ upload = "IDLE" /\ upload' = "START" /\ recorded' = recorded + 1
      /\ flash' = recorded + 1 /\ recorded < MaxRecordings
      /\ UNCHANGED <<pos, conn, connected, cut, wire, handler, submitted, faults>>
  BY DEF Record, link
<1>2. recorded \in Nat /\ recorded' \in 0..MaxRecordings /\ recorded' >= recorded
      /\ recorded' # 0
  BY <1>1, BoundsAssumption DEF UInv, TypeOK
<1>3. TypeOK'
  BY <1>1, <1>2 DEF UInv, TypeOK, UploadStates
<1>4. PendingIsOnFlash'
  BY <1>1, <1>2 DEF PendingIsOnFlash
<1>5. \A r \in 1..recorded : Pending(r)' => Pending(r)
  BY <1>1, <1>2 DEF Pending
<1>6. Upcoming' = Upcoming
  BY <1>1 DEF Upcoming
<1>7. DeviceInv'
  BY <1>1, <1>6, DeviceUntouched
<1>8. WireInv' /\ HandlerInv' /\ StopInv' /\ SubmittedIsWhole' /\ SubmittedOnce'
  BY <1>1, <1>2, <1>3, <1>5, WiresUntouched
<1> QED
  BY <1>3, <1>4, <1>7, <1>8 DEF UInv

\* A frame that is not taken starts the upload again on another connection.
LEMMA StepUploadFails ==
  ASSUME UInv, UploadFails
  PROVE  UInv'
<1>1. /\ upload # "IDLE" /\ upload' = "START" /\ flash' = flash
      /\ connected' = FALSE /\ cut' = cut \cup {conn} /\ connected
      /\ UNCHANGED <<pos, conn, wire, handler, submitted, recorded>>
      /\ faults < MaxFaults /\ faults' = faults + 1
  BY DEF UploadFails, Fault, SendFrame, SendStart, SendChunk, SendStop,
     RestartUpload
<1>2. conn \in Conns
  BY <1>1, BoundsAssumption DEF UInv, DeviceInv, TypeOK, Conns
<1>3. TypeOK'
  <2>1. faults' \in 0..MaxFaults /\ cut' \subseteq Conns
    BY <1>1, <1>2, BoundsAssumption DEF UInv, TypeOK
  <2> QED
    BY <1>1, <2>1 DEF UInv, TypeOK, UploadStates
<1>4. PendingIsOnFlash'
  BY <1>1 DEF UInv, PendingIsOnFlash
<1>5. \A r \in 1..recorded : Pending(r)' => Pending(r)
  BY <1>1 DEF Pending
<1>6. DeviceInv'
  BY <1>1, DeviceUntouched
<1>7. recorded <= recorded'
  BY <1>1, BoundsAssumption DEF UInv, TypeOK
<1>8. WireInv' /\ HandlerInv' /\ StopInv' /\ SubmittedIsWhole' /\ SubmittedOnce'
  BY <1>1, <1>3, <1>5, <1>7, WiresUntouched
<1> QED
  BY <1>3, <1>4, <1>6, <1>8 DEF UInv

\* The steps that change the upload and send nothing.
LEMMA StepQuiet ==
  ASSUME UInv, UploadGivenUp \/ UploadEndOfFile \/ NoticeCut \/ UNCHANGED vars
  PROVE  UInv'
<1>1. UNCHANGED <<pos, flash, conn, cut, wire, handler, submitted, recorded>>
  BY DEF UploadGivenUp, UploadEndOfFile, NoticeCut, OpenFails, EndOfFile, vars,
     device, link
<1>2. /\ upload' \in UploadStates
      /\ upload' # "IDLE" => upload # "IDLE"
      /\ connected' => connected
      /\ connected' \in BOOLEAN
  <2>1. CASE UploadGivenUp \/ UploadEndOfFile
    <3>1. upload # "IDLE" /\ upload' \in UploadStates
      BY <2>1 DEF UploadGivenUp, UploadEndOfFile, OpenFails, EndOfFile, UploadStates
    <3>2. UNCHANGED connected
      BY <2>1 DEF UploadGivenUp, UploadEndOfFile, link
    <3> QED
      BY <3>1, <3>2 DEF UInv, TypeOK
  <2>2. CASE NoticeCut
    <3>1. UNCHANGED upload
      BY <2>2 DEF NoticeCut, device
    <3>2. connected' = FALSE
      BY <2>2 DEF NoticeCut
    <3> QED
      BY <3>1, <3>2 DEF UInv, TypeOK
  <2>3. CASE UNCHANGED vars
    BY <2>3 DEF UInv, TypeOK, vars, device, link
  <2> QED
    BY <2>1, <2>2, <2>3
<1>3. faults' \in 0..MaxFaults
  BY BoundsAssumption DEF UInv, TypeOK, UploadGivenUp, UploadEndOfFile, NoticeCut,
     Fault, vars
<1>4. Upcoming' = Upcoming
  <2>1. CASE UploadGivenUp
    BY <1>1, <2>1 DEF UploadGivenUp, OpenFails, Upcoming
  <2>2. CASE UploadEndOfFile
    <3>1. upload = "DATA" /\ pos = Chunks /\ upload' = "STOP" /\ pos' = pos
          /\ flash' = flash
      BY <2>2 DEF UploadEndOfFile, EndOfFile
    <3>2. ~(pos < Chunks)
      BY <3>1, ChunksAssumption
    <3> QED
      BY <3>1, <3>2 DEF Upcoming
  <2>3. CASE NoticeCut \/ UNCHANGED vars
    BY <2>3 DEF NoticeCut, vars, device, Upcoming
  <2> QED
    BY <2>1, <2>2, <2>3
<1>5. TypeOK'
  BY <1>1, <1>2, <1>3 DEF UInv, TypeOK
<1>6. PendingIsOnFlash'
  BY <1>1, <1>2 DEF UInv, PendingIsOnFlash
<1>7. \A r \in 1..recorded : Pending(r)' => Pending(r)
  BY <1>1, <1>2 DEF Pending
<1>8. DeviceInv'
  BY <1>1, <1>2, <1>4, DeviceUntouched
<1>9. recorded <= recorded'
  BY <1>1, BoundsAssumption DEF UInv, TypeOK
<1>10. WireInv' /\ HandlerInv' /\ StopInv' /\ SubmittedIsWhole' /\ SubmittedOnce'
  BY <1>1, <1>5, <1>7, <1>9, WiresUntouched
<1> QED
  BY <1>5, <1>6, <1>8, <1>10 DEF UInv

\* A restart breaks the connection and forgets the upload.
LEMMA StepReboot ==
  ASSUME UInv, Reboot
  PROVE  UInv'
<1>1. /\ upload' = "IDLE" /\ pos' = 0 /\ connected' = FALSE
      /\ UNCHANGED <<flash, conn, wire, handler, submitted, recorded>>
      /\ faults < MaxFaults /\ faults' = faults + 1
      /\ cut' = IF conn = 0 THEN cut ELSE cut \cup {conn}
  BY DEF Reboot, Fault
<1>2. conn # 0 => conn \in Conns
  BY BoundsAssumption DEF UInv, TypeOK, Conns
<1>3. cut \subseteq cut' /\ cut' \subseteq Conns
  BY <1>1, <1>2 DEF UInv, TypeOK
<1>4. faults' \in 0..MaxFaults /\ pos' \in 0..Chunks
  BY <1>1, BoundsAssumption, ChunksAssumption DEF UInv, TypeOK
<1>5. TypeOK'
  BY <1>1, <1>3, <1>4 DEF UInv, TypeOK, UploadStates
<1>6. PendingIsOnFlash'
  BY <1>1 DEF PendingIsOnFlash
<1>7. \A r \in 1..recorded : Pending(r)' => Pending(r)
  BY <1>1 DEF Pending
<1>8. DeviceInv'
  BY <1>1, <1>3, DeviceUntouched
<1>9. recorded <= recorded'
  BY <1>1, BoundsAssumption DEF UInv, TypeOK
<1>10. WireInv' /\ HandlerInv' /\ StopInv' /\ SubmittedIsWhole' /\ SubmittedOnce'
  BY <1>1, <1>5, <1>7, <1>9, WiresUntouched
<1> QED
  BY <1>5, <1>6, <1>8, <1>10 DEF UInv

\* The connection breaks: what is left on it is the beginning of what was.
LEMMA StepCut ==
  ASSUME UInv, Cut
  PROVE  UInv'
<1>1. PICK n \in 0..Len(wire[conn]) :
        wire' = [wire EXCEPT ![conn] = SubSeq(wire[conn], 1, n)]
  BY DEF Cut
<1>2. /\ conn \in Conns /\ cut' = cut \cup {conn} /\ recorded <= recorded'
      /\ UNCHANGED <<upload, pos, flash, conn, connected, handler, submitted, recorded>>
      /\ faults' \in 0..MaxFaults
  BY BoundsAssumption DEF UInv, TypeOK, Cut, Fault, device, Conns
<1>3. wire \in [Conns -> Seq(Frames)]
  BY DEF UInv, TypeOK
<1> DEFINE w == wire[conn]
           t == SubSeq(w, 1, n)
<1>4. /\ w \in Seq(Frames) /\ t \in Seq(Frames) /\ Len(t) = n /\ Len(w) \in Nat
      /\ \A i \in 1..n : t[i] = w[i]
      /\ t # <<>> => w # <<>> /\ t[1] = w[1]
  BY <1>2, <1>3, CutWire
<1>5. /\ wire'[conn] = t
      /\ \A c \in Conns : c # conn => wire'[c] = wire[c]
      /\ wire' \in [Conns -> Seq(Frames)]
  BY <1>1, <1>2, <1>3, <1>4
<1> HIDE DEF t
<1>6. TypeOK'
  BY <1>2, <1>5 DEF UInv, TypeOK
<1>7. PendingIsOnFlash' /\ SubmittedIsWhole' /\ SubmittedOnce' /\ HandlerInv'
  BY <1>2 DEF UInv, PendingIsOnFlash, SubmittedIsWhole, SubmittedOnce, HandlerInv
<1>8. WireInv'
  <2>1. \A i \in 1..Len(t) : t[i] = w[i + 0]
    BY <1>4
  <2>2. Chained(t)
    <3>1. Chained(w)
      BY <1>2 DEF UInv, WireInv
    <3>2. 0 \in Nat /\ Len(t) + 0 <= Len(w)
      BY <1>4
    <3> HIDE DEF w
    <3> QED
      BY <1>4, <2>1, <3>1, <3>2, ChainedPiece
  <2>3. t # <<>> => Expects(handler[conn], t[1])
    BY <1>2, <1>4 DEF UInv, WireInv
  <2>4. ~(conn > conn)
    BY <1>2 DEF Conns
  <2> SUFFICES ASSUME NEW c \in Conns
               PROVE  /\ wire'[c] # <<>> => Expects(handler[c], wire'[c][1])
                      /\ Chained(wire'[c])
                      /\ c > conn => wire'[c] = <<>> /\ handler[c] = NoHandler
    BY <1>2 DEF WireInv
  <2>5. CASE c = conn
    BY <1>5, <2>2, <2>3, <2>4, <2>5
  <2>6. CASE c # conn
    BY <1>5, <2>6 DEF UInv, WireInv
  <2> QED
    BY <2>5, <2>6
<1>9. DeviceInv'
  BY <1>2 DEF UInv, DeviceInv
<1>10. StopInv'
  <2>1. \A c \in Conns : \E k \in Nat :
          \A r \in 1..MaxRecordings : \A i \in 1..Len(wire'[c]) :
            wire'[c][i] = MicStop(r) =>
              i + k \in 1..Len(wire[c]) /\ wire[c][i + k] = MicStop(r)
    <3> SUFFICES ASSUME NEW c \in Conns
                 PROVE  \A r \in 1..MaxRecordings : \A i \in 1..Len(wire'[c]) :
            wire'[c][i] = MicStop(r) =>
              i + 0 \in 1..Len(wire[c]) /\ wire[c][i + 0] = MicStop(r)
      OBVIOUS
    <3>1. \A i \in 1..Len(wire'[c]) :
            i + 0 \in 1..Len(wire[c]) /\ wire[c][i + 0] = wire'[c][i]
      <4>1. CASE c = conn
        BY <1>4, <1>5, <4>1
      <4>2. CASE c # conn
        <5>1. Len(wire[c]) \in Nat /\ wire'[c] = wire[c]
          BY <1>3, <1>5, <4>2, LenProperties
        <5> QED
          BY <5>1
      <4> QED
        BY <4>1, <4>2
    <3> QED
      BY <3>1
  <2>2. \A r \in 1..MaxRecordings : IsSubmitted(r)' => IsSubmitted(r)
    BY <1>2 DEF IsSubmitted
  <2>3. \A r \in 1..recorded : Pending(r)' => Pending(r)
    BY <1>2 DEF Pending
  <2> QED
    BY <1>2, <1>6, <2>1, <2>2, <2>3, StopsKept DEF UInv
<1> QED
  BY <1>6, <1>7, <1>8, <1>9, <1>10 DEF UInv

\* A new connection begins with identify, whatever the upload is about to send.
LEMMA StepConnect ==
  ASSUME UInv, Connect
  PROVE  UInv'
<1> DEFINE n == conn + 1
<1>1. /\ ~connected /\ conn < MaxConns /\ conn' = n /\ connected' = TRUE
      /\ wire' = [wire EXCEPT ![n] = <<Identify>>]
      /\ handler' = [handler EXCEPT ![n].alive = TRUE]
      /\ UNCHANGED <<upload, pos, flash, cut, submitted, recorded, faults>>
  BY DEF Connect, device
<1>2. n \in Conns /\ conn \in Nat
  BY <1>1, BoundsAssumption DEF UInv, TypeOK, Conns
<1>3. /\ wire \in [Conns -> Seq(Frames)] /\ handler \in [Conns -> Handlers]
      /\ recorded <= recorded'
  BY <1>1, BoundsAssumption DEF UInv, TypeOK
<1>4. handler[n] = NoHandler
  <2>1. n > conn
    BY <1>2
  <2> QED
    BY <1>2, <2>1 DEF UInv, WireInv
<1>5. /\ handler'[n] = [NoHandler EXCEPT !.alive = TRUE]
      /\ wire'[n] = <<Identify>>
      /\ \A c \in Conns : c # n => wire'[c] = wire[c] /\ handler'[c] = handler[c]
  BY <1>1, <1>2, <1>3, <1>4
<1>6. ~handler'[n].known /\ ~handler'[n].open /\ ~handler'[n].saved
  BY <1>5 DEF NoHandler
<1>7. /\ <<Identify>> \in Seq(Frames) /\ Len(<<Identify>>) = 1
      /\ <<Identify>>[1] = Identify /\ <<Identify>> # <<>>
  BY DEF Frames
<1>8. TypeOK'
  <2>1. handler'[n] \in Handlers
    BY <1>2, <1>3, <1>4, <1>5 DEF Handlers
  <2>2. handler' \in [Conns -> Handlers]
    BY <1>1, <1>2, <1>3, <2>1
  <2>3. wire' \in [Conns -> Seq(Frames)]
    BY <1>1, <1>2, <1>3, <1>7
  <2>4. conn' \in 0..MaxConns
    BY <1>1, <1>2, BoundsAssumption
  <2> QED
    BY <1>1, <2>2, <2>3, <2>4 DEF UInv, TypeOK
<1>9. PendingIsOnFlash' /\ SubmittedIsWhole' /\ SubmittedOnce'
  BY <1>1 DEF UInv, PendingIsOnFlash, SubmittedIsWhole, SubmittedOnce
<1>10. HandlerInv'
  <2> SUFFICES ASSUME NEW c \in Conns PROVE HandlerOK(handler'[c])
    BY DEF HandlerInv
  <2>1. CASE c = n
    BY <1>6, <2>1 DEF HandlerOK
  <2>2. CASE c # n
    BY <1>5, <2>2 DEF UInv, HandlerInv
  <2> QED
    BY <2>1, <2>2
<1>11. WireInv'
  <2> SUFFICES ASSUME NEW c \in Conns
               PROVE  /\ wire'[c] # <<>> => Expects(handler'[c], wire'[c][1])
                      /\ Chained(wire'[c])
                      /\ c > n => wire'[c] = <<>> /\ handler'[c] = NoHandler
    BY <1>1 DEF WireInv
  <2>1. CASE c = n
    <3>1. Expects(handler'[n], Identify)
      BY <1>6 DEF Expects
    <3>2. Chained(<<Identify>>)
      BY <1>7 DEF Chained
    <3>3. ~(n > n)
      BY <1>2
    <3> HIDE DEF n
    <3> QED
      BY <1>5, <1>7, <2>1, <3>1, <3>2, <3>3
  <2>2. CASE c # n
    <3>1. c > n => c > conn
      BY <1>2 DEF Conns
    <3> QED
      BY <1>5, <2>2, <3>1 DEF UInv, WireInv
  <2> QED
    BY <2>1, <2>2
<1>12. DeviceInv'
  <2>1. Upcoming' # Identify
    <3>1. Upcoming' = MicStart \/ Upcoming' = Audio(flash', pos' + 1)
          \/ Upcoming' = MicStop(flash')
      BY DEF Upcoming
    <3> QED
      BY <3>1, FramesDiffer
  <2>2. Last(<<Identify>>) = Identify
    BY <1>7 DEF Last
  <2>3. Follows(Identify, Upcoming')
    BY <2>1, FollowsKinds
  <2>4. Continues(conn, Upcoming)'
    BY <1>1, <1>5, <1>7, <2>2, <2>3 DEF Continues
  <2>5. conn' # 0
    BY <1>1, <1>2
  <2> QED
    BY <2>4, <2>5 DEF DeviceInv
<1>13. StopInv'
  <2>1. \A c \in Conns : \E k \in Nat :
          \A r \in 1..MaxRecordings : \A i \in 1..Len(wire'[c]) :
            wire'[c][i] = MicStop(r) =>
              i + k \in 1..Len(wire[c]) /\ wire[c][i + k] = MicStop(r)
    <3> SUFFICES ASSUME NEW c \in Conns, NEW r \in 1..MaxRecordings,
                        NEW i \in 1..Len(wire'[c]), wire'[c][i] = MicStop(r)
                 PROVE  i + 0 \in 1..Len(wire[c]) /\ wire[c][i + 0] = MicStop(r)
      OBVIOUS
    <3>1. CASE c = n
      <4>1. i = 1
        BY <1>5, <1>7, <3>1
      <4>2. Identify = MicStop(r)
        BY <1>5, <1>7, <3>1, <4>1
      <4> QED
        BY <4>2, FramesDiffer
    <3>2. CASE c # n
      <4>1. Len(wire[c]) \in Nat /\ wire'[c] = wire[c]
        BY <1>3, <1>5, <3>2, LenProperties
      <4>2. i + 0 = i
        BY <4>1
      <4> QED
        BY <4>1, <4>2
    <3> QED
      BY <3>1, <3>2
  <2>2. \A r \in 1..MaxRecordings : IsSubmitted(r)' => IsSubmitted(r)
    BY <1>1 DEF IsSubmitted
  <2>3. \A r \in 1..recorded : Pending(r)' => Pending(r)
    BY <1>1 DEF Pending
  <2> QED
    BY <1>3, <1>8, <2>1, <2>2, <2>3, StopsKept DEF UInv
<1> QED
  BY <1>8, <1>9, <1>10, <1>11, <1>12, <1>13 DEF UInv

\* The device sends what it was expected to, and what it sends next follows.
LEMMA SendsUpcoming ==
  ASSUME UInv, SendFrame(TRUE)
  PROVE  /\ Frame \in Frames /\ Frame = Upcoming /\ Follows(Frame, Upcoming')
         /\ upload # "STOP" => \A r \in 1..MaxRecordings : Frame # MicStop(r)
         /\ upload = "STOP" => Frame = MicStop(flash) /\ upload' = "IDLE"
         /\ upload # "STOP" => upload' = "DATA" /\ flash' = flash
         /\ upload # "IDLE" /\ upload' \in UploadStates
         /\ pos' \in 0..Chunks /\ flash' \in 0..MaxRecordings
<1>1. upload # "IDLE"
  BY DEF SendFrame, SendStart, SendChunk, SendStop
<1>2. flash \in 1..MaxRecordings /\ pos \in 0..Chunks
  BY <1>1, BoundsAssumption DEF UInv, TypeOK, PendingIsOnFlash
<1>3. CASE upload = "START"
  <2>1. upload' = "DATA" /\ pos' = 0 /\ flash' = flash
    BY <1>3 DEF SendFrame, SendStart, SendChunk, SendStop
  <2>2. 0 \in 0..Chunks /\ 0 < Chunks
    BY ChunksAssumption
  <2>3. Frame = MicStart /\ Upcoming = MicStart /\ Upcoming' = Audio(flash, 0 + 1)
    BY <1>3, <2>1, <2>2 DEF Frame, Upcoming
  <2>4. Follows(MicStart, Audio(flash, 1))
    BY <1>2, FollowsKinds
  <2>5. MicStart \in Frames
    BY DEF Frames
  <2>6. Upcoming' = Audio(flash, 1)
    BY <2>3
  <2> QED
    BY <1>2, <1>3, <2>1, <2>2, <2>3, <2>4, <2>5, <2>6, FramesDiffer
       DEF UploadStates
<1>4. CASE upload = "DATA"
  <2>1. pos < Chunks /\ upload' = "DATA" /\ pos' = pos + 1 /\ flash' = flash
    BY <1>4 DEF SendFrame, SendStart, SendChunk, SendStop
  <2>2. /\ pos + 1 \in 1..Chunks /\ pos + 1 \in 0..Chunks
        /\ ~(pos + 1 < Chunks) => pos + 1 = Chunks
    BY <1>2, <2>1, ChunksAssumption
  <2>3. Frame = Audio(flash, pos + 1) /\ Upcoming = Audio(flash, pos + 1)
    BY <1>4, <2>1 DEF Frame, Upcoming
  <2>4. Upcoming' = IF pos + 1 < Chunks THEN Audio(flash, (pos + 1) + 1)
                    ELSE MicStop(flash)
    BY <2>1 DEF Upcoming
  <2>5. Audio(flash, pos + 1) \in Frames
    BY <1>2, <2>2 DEF Frames
  <2>6. Follows(Audio(flash, pos + 1), Upcoming')
    BY <2>4, FollowsKinds
  <2> QED
    BY <1>2, <1>4, <2>1, <2>2, <2>3, <2>5, <2>6, FramesDiffer DEF UploadStates
<1>5. CASE upload = "STOP"
  <2>1. upload' = "IDLE" /\ pos' = pos /\ flash' = 0
    BY <1>5 DEF SendFrame, SendStart, SendChunk, SendStop
  <2>2. Frame = MicStop(flash) /\ Upcoming = MicStop(flash) /\ Upcoming' = MicStart
    BY <1>5, <2>1 DEF Frame, Upcoming
  <2>3. MicStop(flash) \in Frames
    BY <1>2 DEF Frames
  <2>4. Follows(MicStop(flash), MicStart)
    BY FollowsKinds
  <2>5. 0 \in 0..MaxRecordings
    BY BoundsAssumption
  <2> QED
    BY <1>2, <1>5, <2>1, <2>2, <2>3, <2>4, <2>5 DEF UploadStates
<1> QED
  BY <1>1, <1>3, <1>4, <1>5 DEF UInv, TypeOK, UploadStates

\* One frame goes out.
LEMMA StepUploadFrame ==
  ASSUME UInv, UploadFrame
  PROVE  UInv'
<1> DEFINE w == wire[conn]
           f == Frame
<1>1. /\ connected /\ SendFrame(TRUE) /\ Transmit(f)
      /\ UNCHANGED <<conn, connected, cut, handler, submitted, recorded, faults>>
  BY DEF UploadFrame
<1>2. /\ f \in Frames /\ f = Upcoming /\ Follows(f, Upcoming')
      /\ upload # "STOP" => \A r \in 1..MaxRecordings : f # MicStop(r)
      /\ upload = "STOP" => f = MicStop(flash) /\ upload' = "IDLE"
      /\ upload # "STOP" => upload' = "DATA" /\ flash' = flash
      /\ upload # "IDLE" /\ upload' \in UploadStates
      /\ pos' \in 0..Chunks /\ flash' \in 0..MaxRecordings
  BY <1>1, SendsUpcoming
<1> HIDE DEF f
<1>3. /\ conn \in Conns /\ wire \in [Conns -> Seq(Frames)]
      /\ recorded \in 0..MaxRecordings /\ recorded <= recorded'
  BY <1>1, BoundsAssumption DEF UInv, DeviceInv, TypeOK, Conns
<1>4. w \in Seq(Frames)
  BY <1>3
<1>5. /\ Append(w, f) \in Seq(Frames) /\ Append(w, f) # <<>>
      /\ Last(Append(w, f)) = f
      /\ Append(w, f)[1] = IF w = <<>> THEN f ELSE w[1]
      /\ Len(w) \in Nat /\ Len(Append(w, f)) = Len(w) + 1
      /\ \A i \in 1..Len(w) : Append(w, f)[i] = w[i]
      /\ Append(w, f)[Len(w) + 1] = f
  BY <1>2, <1>4, PutFrame
<1>6. /\ conn \in cut => wire' = wire
      /\ conn \notin cut => /\ wire'[conn] = Append(w, f)
                            /\ wire' \in [Conns -> Seq(Frames)]
      /\ \A c \in Conns : c # conn => wire'[c] = wire[c]
  BY <1>1, <1>3, <1>5 DEF Transmit
<1>7. TypeOK'
  BY <1>1, <1>2, <1>3, <1>6 DEF UInv, TypeOK
<1>8. PendingIsOnFlash'
  BY <1>1, <1>2 DEF UInv, PendingIsOnFlash
<1>9. SubmittedIsWhole' /\ SubmittedOnce' /\ HandlerInv'
  BY <1>1 DEF UInv, SubmittedIsWhole, SubmittedOnce, HandlerInv
<1>10. conn \notin cut => Continues(conn, f)
  BY <1>1, <1>2 DEF UInv, DeviceInv
<1>11. WireInv'
  <2> SUFFICES ASSUME NEW c \in Conns
               PROVE  /\ wire'[c] # <<>> => Expects(handler[c], wire'[c][1])
                      /\ Chained(wire'[c])
                      /\ c > conn => wire'[c] = <<>> /\ handler[c] = NoHandler
    BY <1>1 DEF WireInv
  <2>1. CASE c = conn /\ conn \notin cut
    <3>1. w # <<>> => Expects(handler[conn], w[1])
      BY <1>3 DEF UInv, WireInv
    <3>2. Expects(handler[conn], Append(w, f)[1])
      BY <1>5, <1>10, <2>1, <3>1 DEF Continues
    <3>3. Chained(w)
      BY <1>3 DEF UInv, WireInv
    <3>4. w # <<>> => Follows(Last(w), f)
      BY <1>10, <2>1 DEF Continues
    <3>5. Chained(Append(w, f))
      BY <1>2, <1>4, <3>3, <3>4, ChainedAppend
    <3>6. ~(conn > conn)
      BY <1>3 DEF Conns
    <3> QED
      BY <1>6, <2>1, <3>2, <3>5, <3>6
  <2>2. CASE ~(c = conn /\ conn \notin cut)
    <3>1. wire'[c] = wire[c]
      BY <1>6, <2>2
    <3> QED
      BY <3>1 DEF UInv, WireInv
  <2> QED
    BY <2>1, <2>2
<1>12. DeviceInv'
  <2>1. conn \notin cut => Continues(conn, Upcoming)'
    BY <1>1, <1>2, <1>5, <1>6 DEF Continues
  <2>2. conn' # 0
    BY <1>1 DEF UInv, DeviceInv
  <2> QED
    BY <1>1, <2>1, <2>2 DEF DeviceInv
<1>13. StopInv'
  <2>1. CASE upload # "STOP"
    <3>1. \A c \in Conns : \E k \in Nat :
            \A r \in 1..MaxRecordings : \A i \in 1..Len(wire'[c]) :
              wire'[c][i] = MicStop(r) =>
                i + k \in 1..Len(wire[c]) /\ wire[c][i + k] = MicStop(r)
      <4> SUFFICES ASSUME NEW c \in Conns, NEW r \in 1..MaxRecordings,
                          NEW i \in 1..Len(wire'[c]), wire'[c][i] = MicStop(r)
                   PROVE  i + 0 \in 1..Len(wire[c]) /\ wire[c][i + 0] = MicStop(r)
        OBVIOUS
      <4>1. CASE c = conn /\ conn \notin cut
        <5>1. i # Len(w) + 1
          BY <1>2, <1>5, <1>6, <2>1, <4>1
        <5>2. i \in 1..Len(w) /\ i + 0 = i
          BY <1>5, <1>6, <4>1, <5>1
        <5> QED
          BY <1>5, <1>6, <4>1, <5>2
      <4>2. CASE ~(c = conn /\ conn \notin cut)
        <5>1. Len(wire[c]) \in Nat /\ wire'[c] = wire[c]
          BY <1>3, <1>6, <4>2, LenProperties
        <5>2. i + 0 = i
          BY <5>1
        <5> QED
          BY <5>1, <5>2
      <4> QED
        BY <4>1, <4>2
    <3>2. \A r \in 1..MaxRecordings : IsSubmitted(r)' => IsSubmitted(r)
      BY <1>1 DEF IsSubmitted
    <3>3. \A r \in 1..recorded : Pending(r)' => Pending(r)
      BY <1>2, <2>1 DEF Pending
    <3> QED
      BY <1>3, <1>7, <3>1, <3>2, <3>3, StopsKept DEF UInv
  <2>2. CASE upload = "STOP"
    <3>1. f = MicStop(flash) /\ upload' = "IDLE" /\ flash = recorded /\ flash # 0
      BY <1>2, <2>2 DEF UInv, PendingIsOnFlash
    <3>2. flash \in 1..MaxRecordings /\ Pending(flash)
      BY <1>3, <2>2, <3>1, BoundsAssumption DEF Pending
    <3>3. /\ ~IsSubmitted(flash)
          /\ \A c \in Conns : \A i \in 1..Len(wire[c]) : wire[c][i] # MicStop(flash)
      BY <3>2 DEF UInv, StopInv
    <3>4. \A r \in 1..MaxRecordings : IsSubmitted(r)' = IsSubmitted(r)
      BY <1>1 DEF IsSubmitted
    <3>5. \A r : ~Pending(r)'
      BY <3>1 DEF Pending
    <3> SUFFICES ASSUME NEW r \in 1..MaxRecordings
                 PROVE  /\ \A c \in Conns : \A i \in 1..Len(wire'[c]) :
                             wire'[c][i] = MicStop(r) =>
                               /\ r <= recorded /\ ~IsSubmitted(r)
                               /\ \A d \in Conns : \A j \in 1..Len(wire'[d]) :
                                    wire'[d][j] = MicStop(r) => c = d /\ i = j
                        /\ IsSubmitted(r) => r <= recorded
      BY <1>1, <3>4, <3>5 DEF StopInv
    <3>6. IsSubmitted(r) => r <= recorded
      BY DEF UInv, StopInv
    <3>7. ASSUME NEW c \in Conns, NEW i \in 1..Len(wire'[c]),
                 wire'[c][i] = MicStop(r)
          PROVE  \/ r # flash /\ i \in 1..Len(wire[c]) /\ wire[c][i] = MicStop(r)
                 \/ r = flash /\ c = conn /\ i = Len(w) + 1
      <4>1. CASE c = conn /\ conn \notin cut
        <5>1. CASE i = Len(w) + 1
          <6>1. f = MicStop(r)
            BY <1>5, <1>6, <3>7, <4>1, <5>1
          <6> QED
            BY <3>1, <4>1, <5>1, <6>1, FramesDiffer
        <5>2. CASE i # Len(w) + 1
          <6>1. i \in 1..Len(w)
            BY <1>5, <1>6, <4>1, <5>2
          <6>2. wire[c][i] = MicStop(r)
            BY <1>5, <1>6, <3>7, <4>1, <6>1
          <6> QED
            BY <3>3, <4>1, <6>1, <6>2
        <5> QED
          BY <5>1, <5>2
      <4>2. CASE ~(c = conn /\ conn \notin cut)
        <5>1. wire'[c] = wire[c]
          BY <1>6, <4>2
        <5> QED
          BY <3>3, <3>7, <5>1
      <4> QED
        BY <4>1, <4>2
    <3>8. CASE r = flash
      BY <1>3, <3>1, <3>3, <3>6, <3>7, <3>8, BoundsAssumption
    <3>9. CASE r # flash
      <4>1. \A c \in Conns : \A i \in 1..Len(wire'[c]) :
              wire'[c][i] = MicStop(r) =>
                i \in 1..Len(wire[c]) /\ wire[c][i] = MicStop(r)
        BY <3>7, <3>9
      <4> QED
        BY <3>6, <4>1 DEF UInv, StopInv
    <3> QED
      BY <3>8, <3>9
  <2> QED
    BY <2>1, <2>2
<1> QED
  BY <1>7, <1>8, <1>9, <1>11, <1>12, <1>13 DEF UInv

-----------------------------------------------------------------------------
(* The gateway's steps.                                                     *)

\* The coroutine of a broken connection ends with what it has not read.
LEMMA StepHandlerEnds ==
  ASSUME UInv, NEW n \in Conns, HandlerEnds(n)
  PROVE  UInv'
<1>1. /\ n \in cut /\ handler' = [handler EXCEPT ![n] = NoHandler]
      /\ wire' = [wire EXCEPT ![n] = <<>>]
      /\ UNCHANGED <<upload, pos, flash, conn, connected, cut, submitted, recorded, faults>>
  BY DEF HandlerEnds, device
<1>2. /\ wire \in [Conns -> Seq(Frames)] /\ handler \in [Conns -> Handlers]
      /\ recorded <= recorded'
  BY <1>1, BoundsAssumption DEF UInv, TypeOK
<1>3. /\ wire'[n] = <<>> /\ handler'[n] = NoHandler
      /\ \A c \in Conns : c # n => wire'[c] = wire[c] /\ handler'[c] = handler[c]
  BY <1>1, <1>2
<1>4. /\ <<>> \in Seq(Frames) /\ Len(<<>>) = 0
      /\ ~NoHandler.known /\ ~NoHandler.open /\ ~NoHandler.saved
  BY EmptySeq DEF NoHandler
<1>5. TypeOK'
  <2>1. NoHandler \in Handlers
    BY <1>4 DEF NoHandler, Handlers
  <2> QED
    BY <1>1, <1>2, <1>4, <2>1 DEF UInv, TypeOK
<1>6. PendingIsOnFlash' /\ SubmittedIsWhole' /\ SubmittedOnce'
  BY <1>1 DEF UInv, PendingIsOnFlash, SubmittedIsWhole, SubmittedOnce
<1>7. HandlerInv'
  <2> SUFFICES ASSUME NEW c \in Conns PROVE HandlerOK(handler'[c])
    BY DEF HandlerInv
  <2>1. CASE c = n
    BY <1>3, <1>4, <2>1 DEF HandlerOK
  <2>2. CASE c # n
    BY <1>3, <2>2 DEF UInv, HandlerInv
  <2> QED
    BY <2>1, <2>2
<1>8. WireInv'
  <2>1. Chained(<<>>)
    BY <1>4 DEF Chained
  <2> SUFFICES ASSUME NEW c \in Conns
               PROVE  /\ wire'[c] # <<>> => Expects(handler'[c], wire'[c][1])
                      /\ Chained(wire'[c])
                      /\ c > conn => wire'[c] = <<>> /\ handler'[c] = NoHandler
    BY <1>1 DEF WireInv
  <2>2. CASE c = n
    BY <1>3, <2>1, <2>2
  <2>3. CASE c # n
    BY <1>3, <2>3 DEF UInv, WireInv
  <2> QED
    BY <2>2, <2>3
<1>9. DeviceInv'
  <2>1. connected => conn # 0 /\ conn \in Conns
    BY BoundsAssumption DEF UInv, DeviceInv, TypeOK, Conns
  <2>2. Upcoming' = Upcoming
    BY <1>1 DEF Upcoming
  <2>3. ASSUME connected, conn \notin cut PROVE Continues(conn, Upcoming)'
    <3>1. conn # n /\ conn \in Conns
      BY <1>1, <2>1, <2>3
    <3>2. wire'[conn] = wire[conn] /\ handler'[conn] = handler[conn]
      BY <1>3, <3>1
    <3>3. Continues(conn, Upcoming)
      BY <2>3 DEF UInv, DeviceInv
    <3> QED
      BY <1>1, <2>2, <3>2, <3>3 DEF Continues
  <2> QED
    BY <1>1, <2>1, <2>3 DEF DeviceInv
<1>10. StopInv'
  <2>1. \A c \in Conns : \E k \in Nat :
          \A r \in 1..MaxRecordings : \A i \in 1..Len(wire'[c]) :
            wire'[c][i] = MicStop(r) =>
              i + k \in 1..Len(wire[c]) /\ wire[c][i + k] = MicStop(r)
    <3> SUFFICES ASSUME NEW c \in Conns, NEW r \in 1..MaxRecordings,
                        NEW i \in 1..Len(wire'[c]), wire'[c][i] = MicStop(r)
                 PROVE  i + 0 \in 1..Len(wire[c]) /\ wire[c][i + 0] = MicStop(r)
      OBVIOUS
    <3>1. c # n
      BY <1>3, <1>4
    <3>2. Len(wire[c]) \in Nat /\ wire'[c] = wire[c]
      BY <1>2, <1>3, <3>1, LenProperties
    <3>3. i + 0 = i
      BY <3>2
    <3> QED
      BY <3>2, <3>3
  <2>2. \A r \in 1..MaxRecordings : IsSubmitted(r)' => IsSubmitted(r)
    BY <1>1 DEF IsSubmitted
  <2>3. \A r \in 1..recorded : Pending(r)' => Pending(r)
    BY <1>1 DEF Pending
  <2> QED
    BY <1>2, <1>5, <2>1, <2>2, <2>3, StopsKept DEF UInv
<1> QED
  BY <1>5, <1>6, <1>7, <1>8, <1>9, <1>10 DEF UInv

\* A handler reads one frame; a mic_stop may submit its file.
LEMMA StepHandleFrame ==
  ASSUME UInv, NEW n \in Conns, HandleFrame(n)
  PROVE  UInv'
<1> DEFINE w == wire[n]
           h == handler[n]
           f == Head(wire[n])
<1>1. /\ w # <<>> /\ wire' = [wire EXCEPT ![n] = Tail(w)]
      /\ handler' = [handler EXCEPT ![n] = AfterFrame(h, f)]
      /\ submitted' = IF Submits(h, f)
                      THEN Append(submitted, [on |-> n, file |-> h.file])
                      ELSE submitted
      /\ UNCHANGED <<upload, pos, flash, conn, connected, cut, recorded, faults>>
  BY DEF HandleFrame, device
<1>2. /\ wire \in [Conns -> Seq(Frames)] /\ handler \in [Conns -> Handlers]
      /\ recorded <= recorded' /\ recorded \in 0..MaxRecordings
      /\ submitted \in Seq([on : Conns, file : Seq(Frames)])
  BY <1>1, BoundsAssumption DEF UInv, TypeOK
<1>3. w \in Seq(Frames) /\ h \in Handlers /\ h.file \in Seq(Frames)
  BY <1>2 DEF Handlers
<1>4. /\ f = w[1] /\ f \in Frames
      /\ Tail(w) \in Seq(Frames) /\ Len(w) \in Nat /\ Len(w) = Len(Tail(w)) + 1
      /\ \A i \in 1..Len(Tail(w)) : Tail(w)[i] = w[i + 1]
      /\ Tail(w) = <<>> => Last(w) = w[1]
      /\ Tail(w) # <<>> => /\ Tail(w)[1] = w[2] /\ Len(w) >= 2
                           /\ Last(Tail(w)) = Last(w)
  BY <1>1, <1>3, TakeFrame
<1>5. /\ wire'[n] = Tail(w) /\ handler'[n] = AfterFrame(h, f)
      /\ \A c \in Conns : c # n => wire'[c] = wire[c] /\ handler'[c] = handler[c]
  BY <1>1, <1>2
<1> HIDE DEF w, h, f
<1>6. Expects(h, f) /\ HandlerOK(h) /\ Chained(w)
  BY <1>1, <1>4 DEF UInv, WireInv, HandlerInv, w, h
<1>7. AfterFrame(h, f) \in Handlers /\ HandlerOK(AfterFrame(h, f))
  BY <1>3, <1>4, <1>6, ReadKeepsHandler
<1>8. \A g : Follows(f, g) => Expects(AfterFrame(h, f), g)
  BY <1>3, <1>4, <1>6, ReadThenExpects
<1>9. TypeOK'
  <2>1. wire' \in [Conns -> Seq(Frames)] /\ handler' \in [Conns -> Handlers]
    BY <1>1, <1>2, <1>4, <1>7
  <2>2. submitted' \in Seq([on : Conns, file : Seq(Frames)])
    <3>1. [on |-> n, file |-> h.file] \in [on : Conns, file : Seq(Frames)]
      BY <1>3
    <3> QED
      BY <1>1, <1>2, <3>1, AppendProperties
  <2> QED
    BY <1>1, <2>1, <2>2 DEF UInv, TypeOK
<1>10. PendingIsOnFlash'
  BY <1>1 DEF UInv, PendingIsOnFlash
<1>11. HandlerInv'
  <2> SUFFICES ASSUME NEW c \in Conns PROVE HandlerOK(handler'[c])
    BY DEF HandlerInv
  <2>1. CASE c = n
    BY <1>5, <1>7, <2>1
  <2>2. CASE c # n
    BY <1>5, <2>2 DEF UInv, HandlerInv
  <2> QED
    BY <2>1, <2>2
<1>12. WireInv'
  <2> SUFFICES ASSUME NEW c \in Conns
               PROVE  /\ wire'[c] # <<>> => Expects(handler'[c], wire'[c][1])
                      /\ Chained(wire'[c])
                      /\ c > conn => wire'[c] = <<>> /\ handler'[c] = NoHandler
    BY <1>1 DEF WireInv
  <2>1. CASE c = n
    <3>1. Chained(Tail(w))
      <4>1. 1 \in Nat /\ Len(Tail(w)) + 1 <= Len(w)
        BY <1>4
      <4> QED
        BY <1>3, <1>4, <1>6, <4>1, ChainedPiece
    <3>2. ASSUME Tail(w) # <<>> PROVE Expects(AfterFrame(h, f), Tail(w)[1])
      <4>1. 1 \in 1..(Len(w) - 1) /\ 1 + 1 = 2
        BY <1>4, <3>2
      <4>2. Follows(w[1], w[2])
        BY <1>6, <4>1 DEF Chained
      <4> QED
        BY <1>4, <1>8, <3>2, <4>2
    <3>3. ~(n > conn)
      BY <1>1 DEF UInv, WireInv, w
    <3> QED
      BY <1>5, <2>1, <3>1, <3>2, <3>3
  <2>2. CASE c # n
    BY <1>5, <2>2 DEF UInv, WireInv
  <2> QED
    BY <2>1, <2>2
<1>13. DeviceInv'
  <2>1. connected => conn # 0 /\ conn \in Conns
    BY BoundsAssumption DEF UInv, DeviceInv, TypeOK, Conns
  <2>2. Upcoming' = Upcoming
    BY <1>1 DEF Upcoming
  <2>3. ASSUME connected, conn \notin cut PROVE Continues(conn, Upcoming)'
    <3>1. Continues(conn, Upcoming)
      BY <2>3 DEF UInv, DeviceInv
    <3>2. CASE conn = n
      <4>1. Follows(Last(w), Upcoming)
        BY <1>1, <3>1, <3>2 DEF Continues, w
      <4>2. CASE Tail(w) = <<>>
        <5>1. Expects(AfterFrame(h, f), Upcoming)
          BY <1>4, <1>8, <4>1, <4>2
        <5> QED
          BY <1>1, <1>5, <2>2, <3>2, <4>2, <5>1 DEF Continues
      <4>3. CASE Tail(w) # <<>>
        BY <1>1, <1>4, <1>5, <2>2, <3>2, <4>1, <4>3 DEF Continues
      <4> QED
        BY <4>2, <4>3
    <3>3. CASE conn # n
      <4>1. wire'[conn] = wire[conn] /\ handler'[conn] = handler[conn]
        BY <1>5, <2>1, <2>3, <3>3
      <4> QED
        BY <1>1, <2>2, <3>1, <4>1 DEF Continues
    <3> QED
      BY <3>2, <3>3
  <2> QED
    BY <1>1, <2>1, <2>3 DEF DeviceInv
<1>14. \A c \in Conns : \E k \in Nat :
         \A r \in 1..MaxRecordings : \A i \in 1..Len(wire'[c]) :
           wire'[c][i] = MicStop(r) =>
             i + k \in 1..Len(wire[c]) /\ wire[c][i + k] = MicStop(r)
  <2> SUFFICES ASSUME NEW c \in Conns
               PROVE  \E k \in Nat :
         \A r \in 1..MaxRecordings : \A i \in 1..Len(wire'[c]) :
           wire'[c][i] = MicStop(r) =>
             i + k \in 1..Len(wire[c]) /\ wire[c][i + k] = MicStop(r)
    OBVIOUS
  <2>1. CASE c = n
    <3>1. \A i \in 1..Len(wire'[c]) :
            i + 1 \in 1..Len(wire[c]) /\ wire[c][i + 1] = wire'[c][i]
      <4>1. wire'[c] = Tail(w) /\ wire[c] = w
        BY <1>5, <2>1 DEF w
      <4>2. \A i \in 1..Len(Tail(w)) : i + 1 \in 1..Len(w)
        <5>1. Len(Tail(w)) \in Nat
          BY <1>4, LenProperties
        <5> QED
          BY <1>4, <5>1
      <4> QED
        BY <1>4, <4>1, <4>2
    <3> QED
      BY <3>1
  <2>2. CASE c # n
    <3>1. Len(wire[c]) \in Nat /\ wire'[c] = wire[c]
      BY <1>2, <1>5, <2>2, LenProperties
    <3>2. \A i \in 1..Len(wire[c]) : i + 0 = i
      BY <3>1
    <3> QED
      BY <3>1, <3>2
  <2> QED
    BY <2>1, <2>2
<1>15. \A r \in 1..recorded : Pending(r)' => Pending(r)
  BY <1>1 DEF Pending
<1>16. CASE ~Submits(h, f)
  <2>1. submitted' = submitted
    BY <1>1, <1>16
  <2>2. SubmittedIsWhole' /\ SubmittedOnce'
    BY <1>1, <2>1 DEF UInv, SubmittedIsWhole, SubmittedOnce
  <2>3. \A r \in 1..MaxRecordings : IsSubmitted(r)' => IsSubmitted(r)
    BY <2>1 DEF IsSubmitted
  <2>4. StopInv'
    BY <1>2, <1>9, <1>14, <1>15, <2>3, StopsKept DEF UInv
  <2> QED
    BY <1>9, <1>10, <1>11, <1>12, <1>13, <2>2, <2>4 DEF UInv
<1>17. CASE Submits(h, f)
  <2>1. PICK s \in 1..MaxRecordings : f = MicStop(s) /\ h.file = Chunk(s)
    BY <1>3, <1>4, <1>6, <1>17, SubmitsTheWhole
  <2> DEFINE item == [on |-> n, file |-> Chunk(s)]
             m == Len(submitted)
  <2>2. /\ submitted' = Append(submitted, item) /\ m \in Nat
        /\ Len(submitted') = m + 1 /\ submitted'[m + 1] = item
        /\ \A i \in 1..m : submitted'[i] = submitted[i]
    <3>1. item \in [on : Conns, file : Seq(Frames)]
      BY <1>3, <2>1
    <3>2. submitted' = Append(submitted, item)
      BY <1>1, <1>17, <2>1
    <3> QED
      BY <1>2, <3>1, <3>2, AppendProperties, LenProperties
  <2>3. item.file = Chunk(s)
    OBVIOUS
  <2> HIDE DEF item, m
  <2>4. 1 \in 1..Len(w) /\ w[1] = MicStop(s)
    <3>1. Len(Tail(w)) \in Nat
      BY <1>4, LenProperties
    <3> QED
      BY <1>4, <2>1, <3>1
  <2>5. /\ s <= recorded /\ ~Pending(s) /\ ~IsSubmitted(s)
        /\ \A d \in Conns : \A j \in 1..Len(wire[d]) :
             wire[d][j] = MicStop(s) => n = d /\ 1 = j
    BY <2>4 DEF UInv, StopInv, w
  <2>6. \A i \in 1..m : submitted[i].file # Chunk(s)
    BY <2>5 DEF IsSubmitted, m
  <2>7. SubmittedIsWhole'
    <3> SUFFICES ASSUME NEW i \in 1..(m + 1)
                 PROVE  \E r \in 1..recorded : submitted'[i].file = Chunk(r)
      BY <1>1, <2>2 DEF SubmittedIsWhole
    <3>1. CASE i = m + 1
      <4>1. s \in 1..recorded
        BY <1>2, <2>5, BoundsAssumption
      <4> QED
        BY <2>2, <2>3, <3>1, <4>1
    <3>2. CASE i # m + 1
      <4>1. i \in 1..m /\ submitted'[i] = submitted[i]
        BY <2>2, <3>2
      <4> QED
        BY <4>1 DEF UInv, SubmittedIsWhole, m
    <3> QED
      BY <3>1, <3>2
  <2>8. SubmittedOnce'
    <3> SUFFICES ASSUME NEW i \in 1..(m + 1), NEW j \in 1..(m + 1),
                        submitted'[i].file = submitted'[j].file
                 PROVE  i = j
      BY <2>2 DEF SubmittedOnce
    <3>1. \A x \in 1..(m + 1) :
            \/ x = m + 1 /\ submitted'[x].file = Chunk(s)
            \/ x \in 1..m /\ submitted'[x].file = submitted[x].file
                          /\ submitted[x].file # Chunk(s)
      <4> SUFFICES ASSUME NEW x \in 1..(m + 1), x # m + 1
                   PROVE  x \in 1..m
        BY <2>2, <2>3, <2>6
      <4> QED
        BY <2>2
    <3>2. CASE i \in 1..m /\ j \in 1..m
      BY <3>1, <3>2, <2>2 DEF UInv, SubmittedOnce, m
    <3>3. CASE ~(i \in 1..m /\ j \in 1..m)
      BY <3>1, <3>3
    <3> QED
      BY <3>2, <3>3
  <2>9. \A r \in 1..MaxRecordings : IsSubmitted(r)' =>
          \/ IsSubmitted(r)
          \/ /\ r <= recorded /\ ~Pending(r)
             /\ \A c \in Conns : \A i \in 1..Len(wire'[c]) :
                  wire'[c][i] # MicStop(r)
    <3> SUFFICES ASSUME NEW r \in 1..MaxRecordings, NEW i \in 1..(m + 1),
                        submitted'[i].file = Chunk(r)
                 PROVE  \/ IsSubmitted(r)
                        \/ /\ r <= recorded /\ ~Pending(r)
                           /\ \A c \in Conns : \A x \in 1..Len(wire'[c]) :
                                wire'[c][x] # MicStop(r)
      BY <2>2 DEF IsSubmitted
    <3>1. CASE i # m + 1
      <4>1. i \in 1..m /\ submitted[i].file = Chunk(r)
        BY <2>2, <3>1
      <4> QED
        BY <4>1 DEF IsSubmitted, m
    <3>2. CASE i = m + 1
      <4>1. Chunk(r) = Chunk(s)
        BY <2>2, <2>3, <3>2
      <4>2. r = s
        <5>1. Chunk(r)[1] = Audio(r, 1) /\ Chunk(s)[1] = Audio(s, 1)
          BY ChunksAssumption DEF Chunk
        <5>2. Audio(r, 1) = Audio(s, 1)
          BY <4>1, <5>1
        <5> QED
          BY <5>2, FramesDiffer
      <4>3. ASSUME NEW c \in Conns, NEW x \in 1..Len(wire'[c]),
                   wire'[c][x] = MicStop(s)
            PROVE  FALSE
        <5>1. CASE c = n
          <6>1. x \in 1..Len(Tail(w)) /\ w[x + 1] = MicStop(s)
            BY <1>4, <1>5, <4>3, <5>1
          <6>2. x + 1 \in 1..Len(w) /\ x + 1 # 1
            BY <1>3, <1>4, <6>1, LenProperties
          <6> QED
            BY <2>5, <6>1, <6>2 DEF w
        <5>2. CASE c # n
          BY <1>5, <2>5, <4>3, <5>2
        <5> QED
          BY <5>1, <5>2
      <4> QED
        BY <2>5, <4>2, <4>3
    <3> QED
      BY <3>1, <3>2
  <2>10. StopInv'
    BY <1>2, <1>9, <1>14, <1>15, <2>9, StopsKept DEF UInv
  <2> QED
    BY <1>9, <1>10, <1>11, <1>12, <1>13, <2>7, <2>8, <2>10 DEF UInv
<1> QED
  BY <1>16, <1>17

-----------------------------------------------------------------------------
(* The theorems.                                                            *)

\* Nothing is on any wire at first.
LEMMA UInit == Init => UInv
<1> SUFFICES ASSUME Init PROVE UInv
  OBVIOUS
<1>1. /\ upload = "IDLE" /\ pos = 0 /\ flash = 0 /\ conn = 0 /\ connected = FALSE
      /\ cut = {} /\ submitted = <<>> /\ recorded = 0 /\ faults = 0
      /\ wire = [c \in Conns |-> <<>>] /\ handler = [c \in Conns |-> NoHandler]
  BY DEF Init, UploadInit
<1>2. /\ <<>> \in Seq(Frames) /\ Len(<<>>) = 0
      /\ <<>> \in Seq([on : Conns, file : Seq(Frames)])
      /\ ~NoHandler.known /\ ~NoHandler.open /\ ~NoHandler.saved
  BY EmptySeq DEF NoHandler
<1>3. TypeOK
  <2>1. NoHandler \in Handlers
    BY <1>2 DEF NoHandler, Handlers
  <2>2. /\ 0 \in 0..Chunks /\ 0 \in 0..MaxRecordings /\ 0 \in 0..MaxConns
        /\ 0 \in 0..MaxFaults
    BY BoundsAssumption, ChunksAssumption
  <2>3. wire \in [Conns -> Seq(Frames)] /\ handler \in [Conns -> Handlers]
    BY <1>1, <1>2, <2>1
  <2> QED
    BY <1>1, <1>2, <2>2, <2>3 DEF TypeOK, UploadStates
<1>4. PendingIsOnFlash /\ SubmittedIsWhole /\ SubmittedOnce
  BY <1>1, <1>2 DEF PendingIsOnFlash, SubmittedIsWhole, SubmittedOnce
<1>5. WireInv /\ DeviceInv /\ HandlerInv
  BY <1>1, <1>2 DEF WireInv, DeviceInv, HandlerInv, Chained, HandlerOK
<1>6. StopInv
  BY <1>1, <1>2 DEF StopInv, IsSubmitted
<1> QED
  BY <1>3, <1>4, <1>5, <1>6 DEF UInv

\* Every step keeps the invariant.
LEMMA UStep == UInv /\ [Next]_vars => UInv'
BY StepRecord, StepUploadFrame, StepUploadFails, StepQuiet, StepReboot, StepCut,
   StepConnect, StepHandleFrame, StepHandlerEnds DEF Next, DeviceStep

\* The inductive invariant of the upload: the frames on every connection
\* continue what its handler has read, and one mic_stop exists per recording.
THEOREM UplinkInvariant == Spec => []UInv
<1>1. Init => UInv
  BY UInit
<1>2. UInv /\ [Next]_vars => UInv'
  BY UStep
<1> QED
  BY <1>1, <1>2, PTL DEF Spec

\* What the gateway hands to the orchestrator is one whole recording with its
\* frames in order, and each recording once, however often connections break,
\* sends fail or the device restarts (ws_server.py:180-189, main.cpp:247-320).
THEOREM SubmissionsAreWholeAndSingle == Spec => []SubmittedWholeOnce
<1>1. UInv => SubmittedWholeOnce
  BY DEF UInv, SubmittedWholeOnce
<1> QED
  BY <1>1, UplinkInvariant, PTL

\* A resend never uploads another recording: what is being uploaded is the
\* newest one, and it stays on flash until its mic_stop was sent.
THEOREM UploadIsOfTheNewest == Spec => []PendingIsOnFlash
<1>1. UInv => PendingIsOnFlash
  BY DEF UInv
<1> QED
  BY <1>1, UplinkInvariant, PTL
=============================================================================
