------------------------------- MODULE Codecs -------------------------------
(***************************************************************************)
(* What is converted between the device and the gateway, in both           *)
(* directions: the speech of Capture, and a reply that _fit_oled lays out, *)
(* json.dumps escapes, and wsEvent takes apart and draws.  A text is a     *)
(* sequence of characters, of which only some matter.                      *)
(***************************************************************************)
EXTENDS Capture

CONSTANTS
  MaxLines,  \* max_lines of _fit_oled, and the lines drawn (4)
  MaxChars,  \* max_chars of _fit_oled (12)
  MaxText    \* bound: length of a reply

ASSUME LayoutAssumption == {MaxLines, MaxChars} \subseteq Nat \ {0} /\ MaxText \in Nat

VARIABLE text  \* the reply so far

vars == <<capture, text>>

Characters == {"letter", "newline", "ellipsis", "quote", "backslash"}

-----------------------------------------------------------------------------
(* _fit_oled. *)

\* text.split("\n"): the lines of the first k characters.
Split(t) ==
  LET lines[k \in 0 .. Len(t)] ==
        IF k = 0 THEN <<<<>>>>
        ELSE LET before == lines[k - 1]
             IN  IF t[k] = "newline" THEN Append(before, <<>>)
                 ELSE [before EXCEPT ![Len(before)] = Append(@, t[k])]
  IN  lines[Len(t)]

EndsWith(line, ch) == line # <<>> /\ Last(line) = ch

\* Mutant: a line of exactly max_chars does not fit.
MutFitsLine(raw) == Len(raw) < MaxChars

FitsLine(raw) == Len(raw) <= MaxChars

\* One round of the inner loop: what of raw is left after a line of it.  Its
\* check for a full display is never met while raw is left (WrapInv).
WrapRound(w) ==
  IF FitsLine(w.raw)
  THEN [w EXCEPT !.out = Append(@, w.raw), !.raw = <<>>]
  ELSE IF Len(w.out) = MaxLines - 1
  THEN [out |-> Append(w.out, Append(SubSeq(w.raw, 1, MaxChars - 1), "ellipsis")),
        raw |-> <<>>, truncated |-> TRUE]
  ELSE [w EXCEPT !.out = Append(@, SubSeq(w.raw, 1, MaxChars)),
                 !.raw = SubSeq(@, MaxChars + 1, Len(@))]

\* The inner loop, after k rounds; one takes a character of raw at least.
WrapLine(out, raw) ==
  LET after[k \in 0 .. Len(raw)] ==
        IF k = 0 THEN [out |-> out, raw |-> raw, truncated |-> FALSE]
        ELSE LET w == after[k - 1] IN IF w.raw = <<>> THEN w ELSE WrapRound(w)
  IN  after[Len(raw)]

\* One round of the outer loop; more says whether a line follows.
WrapNext(out, raw, more) ==
  IF Len(out) >= MaxLines THEN [out |-> out, truncated |-> TRUE]
  ELSE IF raw = <<>> THEN [out |-> Append(out, <<>>), truncated |-> FALSE]
  ELSE LET w == WrapLine(out, raw)
       IN  [out |-> w.out,
            truncated |-> w.truncated \/ (more /\ Len(w.out) >= MaxLines)]

\* The outer loop, after i lines.
WrapAll(lines) ==
  LET after[i \in 0 .. Len(lines)] ==
        IF i = 0 THEN [out |-> <<>>, truncated |-> FALSE]
        ELSE LET w == after[i - 1]
             IN  IF w.truncated THEN w
                 ELSE WrapNext(w.out, lines[i], i < Len(lines))
  IN  after[Len(lines)]

\* The ellipsis a cut text ends with.
FitOled(t) ==
  LET wrapped == WrapAll(Split(t))
      lines   == wrapped.out
      end     == Last(lines)
  IN  IF ~wrapped.truncated \/ EndsWith(end, "ellipsis") THEN lines
      ELSE [lines EXCEPT ![Len(lines)] =
             Append(IF Len(end) >= MaxChars THEN SubSeq(end, 1, MaxChars - 1) ELSE end,
                    "ellipsis")]

-----------------------------------------------------------------------------
(* The way to the display. *)

\* "\n".join
Joined(lines) ==
  FlattenSeq([i \in 1 .. Len(lines) |->
    IF i = 1 THEN lines[i] ELSE <<"newline">> \o lines[i]])

\* json.dumps with ensure_ascii=False; "n" follows a backslash.
Escape(ch) == CASE ch = "newline"   -> <<"backslash", "n">>
                [] ch = "quote"     -> <<"backslash", "quote">>
                [] ch = "backslash" -> <<"backslash", "backslash">>
                [] OTHER            -> <<ch>>

Dumped(t) == FlattenSeq([j \in 1 .. Len(t) |-> Escape(t[j])])

\* String.replace of two characters by one, left to right: what becomes of
\* the last n characters.
ReplacePairs(s, pair, by) ==
  LET last[n \in 0 .. Len(s)] ==
        LET at == Len(s) - n + 1
        IN  IF n < 2 THEN SubSeq(s, at, Len(s))
            ELSE IF SubSeq(s, at, at + 1) = pair THEN <<by>> \o last[n - 2]
            ELSE <<s[at]>> \o last[n - 1]
  IN  last[Len(s)]

\* jsonStringValue of what follows the opening quote: the value ends at the
\* first quote that no backslash precedes; without one there is no value,
\* and wsEvent draws an empty text.
JsonStringValue(json) ==
  LET ends == {k \in DOMAIN json :
                 json[k] = "quote" /\ (k = 1 \/ json[k - 1] # "backslash")}
      value == SubSeq(json, 1, Min(ends) - 1)
  IN  IF ends = {} THEN <<>>
      ELSE ReplacePairs(ReplacePairs(value, <<"backslash", "quote">>, "quote"),
                        <<"backslash", "n">>, "newline")

NotBlank(lines) ==
  FlattenSeq([i \in DOMAIN lines |->
    IF lines[i] = <<>> THEN <<>> ELSE <<lines[i]>>])

\* wsEvent draws the lines that are not blank, MaxLines at most.
Drawn(t) ==
  LET lines == NotBlank(Split(t))
  IN  SubSeq(lines, 1, Min({Len(lines), MaxLines}))

\* What is on the display after _display(_fit_oled(t)).
Shown(t) == Drawn(JsonStringValue(Append(Dumped(Joined(FitOled(t))), "quote")))

-----------------------------------------------------------------------------
Init ==
  /\ base \in Bases /\ heard = 0 /\ drop = DropCount /\ buffer = <<>>
  /\ stored = <<>> /\ short = FALSE /\ pending = FALSE /\ text = <<>>
  /\ phase \in {"recording", "reply"}
  /\ phase = "reply" => \A b \in Bases : base <= b

\* A reply of any length up to the bound, one character after another.
Reply ==
  /\ phase = "reply" /\ Len(text) < MaxText
  /\ \E ch \in Characters : text' = Append(text, ch)
  /\ UNCHANGED capture

ReadStep == (\E bytes \in 0 .. ReadSize : Read(bytes)) /\ UNCHANGED text
StopStep == Stop /\ UNCHANGED text

Next == ReadStep \/ StopStep \/ Reply

Spec == Init /\ [][Next]_vars

-----------------------------------------------------------------------------
(* Properties. *)

\* The file decodes to the speech after the dropped transient, every sample
\* within half a quantisation step of what it saturates to, without a gap and
\* to the last sample, however the reads cut it, unless the flash stored less
\* than it was given; what was stored is uploaded (main.cpp:61-100, 593-675,
\* ws_server.py:36-50).
Close(pcm, heardAs) ==
  LET size == IF pcm < 0 THEN -pcm ELSE pcm
      want == IF size > 32635 THEN 32635 ELSE size
      got  == IF pcm < 0 THEN -heardAs ELSE heardAs
  IN  got >= 0 /\ 32 * (IF got > want THEN got - want ELSE want - got) <= want + 132

RecordingIsTheSpeech ==
  LET codes == stored \o buffer IN
  /\ ~short => /\ Len(codes) = Max({0, heard - DropCount})
               /\ \A i \in DOMAIN codes :
                    Close(Saturate(Raw(DropCount + i)), MuLawToPcm16(codes[i]))
  /\ Len(buffer) < BufferSize
  /\ phase = "stopped" => buffer = <<>> /\ (pending <=> stored # <<>>)

\* A reply is wrapped at MaxChars, and what does not fit into MaxLines is cut
\* with an ellipsis that takes no place of its own; the device then draws
\* each line of it that is not blank, whatever quotes and line ends are in it.
\* A backslash does not survive jsonStringValue.
Chopped(line) ==
  IF line = <<>> THEN <<line>>
  ELSE [k \in 1 .. (Len(line) + MaxChars - 1) \div MaxChars |->
         SubSeq(line, (k - 1) * MaxChars + 1, Min({k * MaxChars, Len(line)}))]

ReplyIsShown ==
  LET all   == FlattenSeq([i \in DOMAIN Split(text) |-> Chopped(Split(text)[i])])
      last  == all[MaxLines]
      whole == SubSeq(all, 1, MaxLines - 1)
      cut   == IF EndsWith(last, "ellipsis") THEN last
               ELSE Append(SubSeq(last, 1, Min({Len(last), MaxChars - 1})), "ellipsis")
      fit   == IF Len(all) <= MaxLines THEN all ELSE Append(whole, cut)
  IN  phase = "reply" =>
        /\ FitOled(text) = fit
        /\ "backslash" \notin Range(FlattenSeq(fit))
             => Shown(text) = NotBlank(fit)
=============================================================================
